---- MODULE Spec2Model ----
(***************************************************************************)
(* A model of the secrets manager plugin: EnhancedSecretManager (the       *)
(* secret store: get / set / list / grantAccess / revokeAccess /           *)
(* checkAccess over the global, world and user scopes, with its encryption *)
(* and its access log) and SecretFormService (form sessions that collect   *)
(* secrets over a tunnel and store them through the secret store).         *)
(***************************************************************************)
EXTENDS Integers, Sequences, FiniteSets, Bags, TLC

(***************************************************************************)
(* Identities, keys and values.                                            *)
(***************************************************************************)
\* runtime.agentId
AgentId == "agent"
\* an id that is undefined in the SecretContext (falsy in JavaScript)
NoId == ""
\* the `null` a lookup returns
Null == "<null>"
\* what getWorldSecret returns when it falls back to `secretData` itself
ObjectRet == "<object>"

Users == {"alice", "bob"}
\* the worlds the runtime knows (runtime.getWorld returns null for any other id)
WorldIds == {"w1", "w2"}
\* a world id no world has
GhostWorld == "w0"

\* Role enum of the host runtime
OWNER == "OWNER"
ADMIN == "ADMIN"
MEMBER == "MEMBER"
NONE == "NONE"

\* world.metadata.roles of each world: requester id -> role (absent = undefined)
WorldRoleTable(w) ==
    IF w = "w1"
    THEN [r \in {"alice", "bob", "carol"} |->
            CASE r = "alice" -> OWNER
              [] r = "bob" -> ADMIN
              [] r = "carol" -> MEMBER]
    ELSE IF w = "w2"
    THEN [r \in {"alice"} |-> OWNER]
    ELSE [r \in {} |-> NONE]

\* secret names; one carries the ENV_ prefix that setGlobalSecret strips
Keys == {"K1", "ENV_K1"}
\* secret values; the empty string is the falsy one
Values == {"", "s1", "s2"}
\* initialization vectors randomBytes(16) can return
IVs == {1, 2}

\* number of store operations one behaviour of the store specification performs
MaxOps == 2
\* the in-memory access log keeps the last MaxAccessLogs entries
MaxAccessLogs == 1000

Ctx(l, w, u, r) == [level |-> l, worldId |-> w, userId |-> u, requesterId |-> r]

\* the request contexts the store operations are called with, by the scope a
\* sequence of calls addresses ("mixed": one permitted requester per scope)
ContextsOf(scope) ==
    CASE scope = "global" ->
           {Ctx("global", NoId, NoId, r) : r \in {AgentId, "alice", NoId}}
      [] scope = "world" ->
           {Ctx("world", "w1", NoId, r) : r \in {"alice", "bob", "carol", AgentId, NoId}}
           \cup {Ctx("world", NoId, NoId, "alice"), Ctx("world", GhostWorld, NoId, "alice")}
      [] scope = "user" ->
           {Ctx("user", NoId, "alice", r) : r \in {"alice", "bob", AgentId, NoId}}
           \cup {Ctx("user", NoId, "bob", "bob"), Ctx("user", NoId, NoId, "alice")}
      [] scope = "mixed" ->
           {Ctx("global", NoId, NoId, AgentId), Ctx("world", "w1", NoId, "alice"),
            Ctx("user", NoId, "alice", "alice")}
Scopes == {"global", "world", "user", "mixed"}
Contexts == UNION {ContextsOf(scope) : scope \in Scopes}

(***************************************************************************)
(* Stored values: a string, an EncryptedSecret object, or undefined.       *)
(***************************************************************************)
NoCipher == <<>>
NoTag == <<>>
Undefined == [kind |-> "undefined", str |-> "", ciphertext |-> NoCipher, authTag |-> NoTag]
Str(v) == [kind |-> "string", str |-> v, ciphertext |-> NoCipher, authTag |-> NoTag]

\* JavaScript truthiness of a stored value
Truthy(x) == x.kind = "object" \/ (x.kind = "string" /\ x.str # "")

\* aes-256-gcm under the service's single key: the ciphertext of v under iv,
\* and the authentication tag that belongs to a ciphertext
AesGcm(v, iv) == <<"aes-256-gcm", iv, v>>
GcmTag(ct) == <<"tag", ct[2], ct[3]>>
CorruptTag == <<"corrupt">>

\* EnhancedSecretManager.encrypt
encrypt(v, iv) ==
    [kind |-> "object", str |-> "", ciphertext |-> AesGcm(v, iv),
     authTag |-> GcmTag(AesGcm(v, iv))]

\* decrypt without the decipher step: the stored field is returned as it is
decrypt_NoDecipher(x) == [threw |-> FALSE, out |-> x.str]

\* EnhancedSecretManager.decrypt: [threw, out]; decipher.final() throws when the
\* authentication tag does not verify (or none was set)
decrypt(x) ==
    IF x.kind = "string" THEN [threw |-> FALSE, out |-> x.str]
    ELSE IF x.kind = "object" /\ x.authTag = GcmTag(x.ciphertext)
         THEN [threw |-> FALSE, out |-> x.ciphertext[3]]
         ELSE [threw |-> TRUE, out |-> Null]

(***************************************************************************)
(* SecretConfig records.                                                   *)
(***************************************************************************)
NoType == "unset"
NoConfig ==
    [present |-> FALSE, value |-> Undefined, type |-> NoType, plugin |-> "",
     level |-> "", ownerId |-> NoId, worldId |-> NoId, encrypted |-> FALSE,
     hasPermissions |-> FALSE, permissions |-> <<>>,
     hasSharedWith |-> FALSE, sharedWith |-> <<>>]

\* a user's secret component: data.value and data.metadata
NoComponent == [present |-> FALSE, value |-> Undefined, metadata |-> NoConfig]

VARIABLES
    secretCache,   \* secretCache: "global" and "world:<id>" -> key -> SecretConfig
    envVars,       \* the parent service's environment variables: name -> value
    worlds,        \* world records of the runtime: id -> metadata.secrets
    components,    \* secret components of the runtime: user -> key -> component
    accessLogs,    \* accessLogs
    logged,        \* how many entries logAccess has pushed so far
    scope,         \* the scope this sequence of calls addresses
    ops,           \* store operations performed so far
    last,          \* the last store operation: its arguments and its outcome
    setting,       \* calls of set that await the component store, by key
    sessions,      \* SecretFormService.sessions: the registered ids, in insertion order
    forms,         \* the FormSession objects (also held by their route closures)
    servers,       \* SecretFormService.servers: the ports that have an entry
    listeners,     \* the http.Server created for each port, and its state
    nextPort,      \* SecretFormService.nextPort
    tunnels,       \* NgrokService.tunnels
    tunnelTimeouts, \* NgrokService.tunnelTimeouts
    creating,      \* calls of createSecretForm that await the tunnel or the listener
    submitting,    \* submit handlers that await the secret store
    closing,       \* calls of closeSession / closeTunnel that await a teardown
    closeTunnelCalls, \* how often NgrokService.closeTunnel was called, by tunnel id
    serverCloseCalls, \* how often server.close was called, by port
    callbacks,     \* how often each session's callback was invoked
    now,           \* Date.now(), in minutes
    swept,         \* the minute the interval timer of start() last fired in
    formOps,       \* requests and calls the form service received so far
    asked,         \* what the forms of this behaviour are created with
    event          \* the last step of the form service and its outcome

storeVars == <<secretCache, envVars, worlds, components, accessLogs, logged>>
formVars ==
    <<sessions, forms, servers, listeners, nextPort, tunnels, tunnelTimeouts,
      creating, submitting, closing, closeTunnelCalls, serverCloseCalls,
      callbacks, now, swept, formOps, asked, event>>
vars ==
    <<secretCache, envVars, worlds, components, accessLogs, logged, scope, ops, last,
      setting, sessions, forms, servers, listeners, nextPort, tunnels, tunnelTimeouts,
      creating, submitting, closing, closeTunnelCalls, serverCloseCalls,
      callbacks, now, swept, formOps, asked, event>>

CacheNames == {"global"} \cup WorldIds

\* the store as one value, for the operators below
Store ==
    [secretCache |-> secretCache, envVars |-> envVars, worlds |-> worlds,
     components |-> components, accessLogs |-> accessLogs, logged |-> logged]

EmptyStore ==
    [secretCache |-> [c \in CacheNames |-> [k \in Keys |-> NoConfig]],
     envVars |-> [k \in Keys |-> Undefined],
     worlds |-> [w \in WorldIds |-> [k \in Keys |-> NoConfig]],
     components |-> [u \in Users |-> [k \in Keys |-> NoComponent]],
     accessLogs |-> <<>>,
     logged |-> 0]

(***************************************************************************)
(* Permission rules, the access log and the per-scope readers.             *)
(***************************************************************************)
\* world.metadata?.roles?.[context.requesterId || ''] || Role.NONE
RoleOf(w, r) ==
    IF r \in DOMAIN WorldRoleTable(w) THEN WorldRoleTable(w)[r] ELSE NONE

\* checkPermission whose user branch accepts any identified requester
checkPermission_AnyUser(action, ctx) ==
    IF ctx.level = "global"
    THEN action = "read" \/ ctx.requesterId = AgentId
    ELSE IF ctx.level = "world" /\ ctx.worldId # NoId
    THEN IF ctx.worldId \notin WorldIds
         THEN FALSE
         ELSE IF action = "read"
              THEN TRUE
              ELSE RoleOf(ctx.worldId, ctx.requesterId) \in {OWNER, ADMIN}
    ELSE IF ctx.level = "user" /\ ctx.userId # NoId
    THEN ctx.requesterId # NoId
    ELSE FALSE

\* checkPermission whose world branch lets every member write
checkPermission_MemberWrites(action, ctx) ==
    IF ctx.level = "global"
    THEN action = "read" \/ ctx.requesterId = AgentId
    ELSE IF ctx.level = "world" /\ ctx.worldId # NoId
    THEN IF ctx.worldId \notin WorldIds
         THEN FALSE
         ELSE IF action = "read"
              THEN TRUE
              ELSE RoleOf(ctx.worldId, ctx.requesterId) # NONE
    ELSE IF ctx.level = "user" /\ ctx.userId # NoId
    THEN ctx.requesterId = ctx.userId
    ELSE FALSE

\* checkPermission whose global branch compares the requester with the wrong id
checkPermission_GlobalOpen(action, ctx) ==
    IF ctx.level = "global"
    THEN action = "read" \/ ctx.requesterId # NoId
    ELSE IF ctx.level = "world" /\ ctx.worldId # NoId
    THEN IF ctx.worldId \notin WorldIds
         THEN FALSE
         ELSE IF action = "read"
              THEN TRUE
              ELSE RoleOf(ctx.worldId, ctx.requesterId) \in {OWNER, ADMIN}
    ELSE IF ctx.level = "user" /\ ctx.userId # NoId
    THEN ctx.requesterId = ctx.userId
    ELSE FALSE

\* EnhancedSecretManager.checkPermission
checkPermission(action, ctx) ==
    IF ctx.level = "global"
    THEN action = "read" \/ ctx.requesterId = AgentId
    ELSE IF ctx.level = "world" /\ ctx.worldId # NoId
    THEN IF ctx.worldId \notin WorldIds
         THEN FALSE
         ELSE IF action = "read"
              THEN TRUE
              ELSE RoleOf(ctx.worldId, ctx.requesterId) \in {OWNER, ADMIN}
    ELSE IF ctx.level = "user" /\ ctx.userId # NoId
    THEN ctx.requesterId = ctx.userId
    ELSE FALSE

\* context.requesterId || context.userId || this.runtime.agentId
AccessedBy(ctx) ==
    IF ctx.requesterId # NoId THEN ctx.requesterId
    ELSE IF ctx.userId # NoId THEN ctx.userId
    ELSE AgentId

NoError == ""

\* the first n entries of a list: slice(0, n)
SliceLast_KeepsFirst(l, n) == IF Len(l) > n THEN SubSeq(l, 1, n) ELSE l

\* the last n entries of a list: Array.prototype.slice(-n)
SliceLast(l, n) == IF Len(l) > n THEN SubSeq(l, Len(l) - n + 1, Len(l)) ELSE l

\* EnhancedSecretManager.logAccess
logAccess(S, key, action, ctx, success, error) ==
    LET log == [secretKey |-> key, accessedBy |-> AccessedBy(ctx), action |-> action,
                context |-> ctx, success |-> success, error |-> error]
    IN [S EXCEPT !.accessLogs = SliceLast(Append(S.accessLogs, log), MaxAccessLogs),
                 !.logged = @ + 1]

\* EnhancedSecretManager.getAccessLogs; a context whose fields are all falsy
\* filters like no context
getAccessLogs(S, key, context) ==
    LET Matches(log) ==
          /\ log.secretKey = key
          /\ context.level # "" => log.context.level = context.level
          /\ context.worldId # NoId => log.context.worldId = context.worldId
          /\ context.userId # NoId => log.context.userId = context.userId
    IN SelectSeq(S.accessLogs, Matches)

\* key.startsWith('ENV_') ? key.substring(4) : key
EnvKey(key) == IF key = "ENV_K1" THEN "K1" ELSE key

\* EnvManagerService.getEnvVar of the parent service
getEnvVar(S, name) == S.envVars[name]

\* a reader's outcome: the value returned, or a thrown error
Returned(v) == [threw |-> FALSE, out |-> v, error |-> NoError]
Thrown(msg) == [threw |-> TRUE, out |-> Null, error |-> msg]

\* `x || null` for a stored string value
OrNull(x) == IF Truthy(x) THEN x.str ELSE Null

\* decrypt(x), as the outcome of the reader that awaits it
Decrypted(x) ==
    IF decrypt(x).threw THEN Thrown("unable to authenticate data")
    ELSE Returned(decrypt(x).out)

\* EnhancedSecretManager.getGlobalSecret
getGlobalSecret(S, key) ==
    IF Truthy(getEnvVar(S, key))
    THEN Returned(getEnvVar(S, key).str)
    ELSE Returned(OrNull(S.secretCache["global"][key].value))

\* EnhancedSecretManager.getWorldSecret
getWorldSecret(S, key, worldId) ==
    IF worldId \in WorldIds /\ S.secretCache[worldId][key].present
    THEN LET config == S.secretCache[worldId][key]
         IN IF config.encrypted /\ Truthy(config.value)
            THEN Decrypted(config.value)
            ELSE Returned(OrNull(config.value))
    ELSE IF worldId \in WorldIds /\ S.worlds[worldId][key].present
    THEN LET secretData == S.worlds[worldId][key]
         IN IF secretData.encrypted
            THEN Decrypted(secretData.value)
            ELSE IF Truthy(secretData.value)
                 THEN Returned(secretData.value.str)
                 ELSE Returned(ObjectRet)
    ELSE Returned(Null)

\* EnhancedSecretManager.getUserSecret
getUserSecret(S, key, userId) ==
    IF userId \notin Users \/ ~S.components[userId][key].present
    THEN Returned(Null)
    ELSE LET secretData == S.components[userId][key]
         IN IF secretData.metadata.encrypted /\ secretData.value.kind = "object"
            THEN Decrypted(secretData.value)
            ELSE Returned(OrNull(secretData.value))

\* the switch of get over context.level
ReadByLevel(S, key, ctx) ==
    CASE ctx.level = "global" -> getGlobalSecret(S, key)
      [] ctx.level = "world" ->
           IF ctx.worldId = NoId
           THEN Thrown("World ID required for world-level secrets")
           ELSE getWorldSecret(S, key, ctx.worldId)
      [] ctx.level = "user" ->
           IF ctx.userId = NoId
           THEN Thrown("User ID required for user-level secrets")
           ELSE getUserSecret(S, key, ctx.userId)
      [] OTHER -> Thrown("Invalid secret level")

\* get that also admits a requester the record's permissions list grants read
get_HonoursGrants(S, key, ctx) ==
    LET S1 == logAccess(S, key, "read", ctx, TRUE, NoError)
        granted == IF ctx.level = "user" /\ ctx.userId \in Users
                   THEN S.components[ctx.userId][key].metadata.permissions
                   ELSE <<>>
    IN IF ~(\/ checkPermission("read", ctx)
            \/ \E i \in DOMAIN granted :
                 granted[i].entityId = ctx.requesterId /\ "read" \in granted[i].permissions)
       THEN [st |-> logAccess(S1, key, "read", ctx, FALSE, "Permission denied"),
             out |-> Null, threw |-> FALSE, denied |-> TRUE]
       ELSE LET r == ReadByLevel(S1, key, ctx)
            IN IF r.threw
               THEN [st |-> logAccess(S1, key, "read", ctx, FALSE, r.error),
                     out |-> Null, threw |-> FALSE, denied |-> FALSE]
               ELSE [st |-> S1, out |-> r.out, threw |-> FALSE, denied |-> FALSE]

\* EnhancedSecretManager.get: the store after the call, the value returned,
\* whether the call threw, and whether the permission check refused it
get(S, key, ctx) ==
    LET S1 == logAccess(S, key, "read", ctx, TRUE, NoError)
    IN IF ~checkPermission("read", ctx)
       THEN [st |-> logAccess(S1, key, "read", ctx, FALSE, "Permission denied"),
             out |-> Null, threw |-> FALSE, denied |-> TRUE]
       ELSE LET r == ReadByLevel(S1, key, ctx)
            IN IF r.threw
               THEN [st |-> logAccess(S1, key, "read", ctx, FALSE, r.error),
                     out |-> Null, threw |-> FALSE, denied |-> FALSE]
               ELSE [st |-> S1, out |-> r.out, threw |-> FALSE, denied |-> FALSE]

(***************************************************************************)
(* Writing a secret.                                                       *)
(***************************************************************************)
\* the Partial<SecretConfig> a caller passes to set; "unset" = the field is absent
UnsetConfig ==
    [encrypted |-> "unset", type |-> NoType, validationMethod |-> FALSE,
     hasPermissions |-> FALSE, permissions |-> <<>>]

\* what the collaborators do during one call: the verdict of a validation
\* strategy that asks a third party, whether the backing store accepts the
\* write, and the initialization vector randomBytes returns
CallEnvs == [strategyOk : BOOLEAN, storeOk : BOOLEAN, iv : IVs]
CalmEnv == [strategyOk |-> TRUE, storeOk |-> TRUE, iv |-> 1]

\* validateEnvVar of ./validation: an empty value is invalid, a named strategy
\* decides, and without a strategy the basic validation passes
validateEnvVar(value, type, validationMethod, strategyOk) ==
    IF value = "" THEN FALSE
    ELSE IF validationMethod THEN strategyOk
    ELSE TRUE

\* the fullConfig object set builds
FullConfig(value, ctx, cfg) ==
    [present |-> TRUE,
     value |-> Str(value),
     type |-> IF cfg.type # NoType THEN cfg.type ELSE "secret",
     plugin |-> ctx.level,
     level |-> ctx.level,
     ownerId |-> ctx.userId,
     worldId |-> ctx.worldId,
     encrypted |-> IF cfg.encrypted = "unset" THEN TRUE ELSE cfg.encrypted = "yes",
     hasPermissions |-> cfg.hasPermissions,
     permissions |-> cfg.permissions,
     hasSharedWith |-> FALSE,
     sharedWith |-> <<>>]

\* a writer's outcome: the store after it, and the error it threw (if any)
Wrote(S) == [st |-> S, threw |-> FALSE, error |-> NoError]
WriteThrew(S, msg) == [st |-> S, threw |-> TRUE, error |-> msg]

\* EnvManagerService.updateEnvVar of the parent service
updateEnvVar(S, name, value) == [S EXCEPT !.envVars[name] = Str(value)]

\* EnhancedSecretManager.setGlobalSecret
setGlobalSecret(S, key, value, config, env) ==
    IF ~env.storeOk
    THEN WriteThrew(S, "updateEnvVar failed")
    ELSE Wrote([updateEnvVar(S, EnvKey(key), value)
                    EXCEPT !.secretCache["global"][key] = config])

\* config.encrypted ? await this.encrypt(value) : value
FinalValue(value, config, env) ==
    IF config.encrypted THEN encrypt(value, env.iv) ELSE Str(value)

\* setWorldSecret with one cache entry for every scope
setWorldSecret_SharedCache(S, key, value, worldId, config, env) ==
    IF worldId \notin WorldIds
    THEN WriteThrew(S, "World not found")
    ELSE IF ~env.storeOk
    THEN WriteThrew(S, "updateWorld failed")
    ELSE LET stored == [config EXCEPT !.value = Str(value)]
         IN Wrote([S EXCEPT !.worlds[worldId][key] = stored,
                            !.secretCache["global"][key] = stored])

\* EnhancedSecretManager.setWorldSecret
setWorldSecret(S, key, value, worldId, config, env) ==
    IF worldId \notin WorldIds
    THEN WriteThrew(S, "World not found")
    ELSE IF ~env.storeOk
    THEN WriteThrew(S, "updateWorld failed")
    ELSE LET stored == [config EXCEPT !.value = FinalValue(value, config, env)]
         IN Wrote([S EXCEPT !.worlds[worldId][key] = stored,
                            !.secretCache[worldId][key] = stored])

\* EnhancedSecretManager.setUserSecret
setUserSecret(S, key, value, userId, config, env) ==
    IF ~env.storeOk
    THEN WriteThrew(S, "component store failed")
    ELSE Wrote([S EXCEPT !.components[userId][key] =
                    [present |-> TRUE,
                     value |-> FinalValue(value, config, env),
                     metadata |-> config]])

\* the switch of set over context.level
WriteByLevel(S, key, value, ctx, config, env) ==
    CASE ctx.level = "global" -> setGlobalSecret(S, key, value, config, env)
      [] ctx.level = "world" ->
           IF ctx.worldId = NoId
           THEN WriteThrew(S, "World ID required for world-level secrets")
           ELSE setWorldSecret(S, key, value, ctx.worldId, config, env)
      [] ctx.level = "user" ->
           IF ctx.userId = NoId
           THEN WriteThrew(S, "User ID required for user-level secrets")
           ELSE setUserSecret(S, key, value, ctx.userId, config, env)
      [] OTHER -> WriteThrew(S, "Invalid secret level")

\* set that writes first and checks the permission afterwards
set_WritesBeforeCheck(S, key, value, ctx, cfg, env) ==
    LET S1 == logAccess(S, key, "write", ctx, TRUE, NoError)
        w == WriteByLevel(S1, key, value, ctx, FullConfig(value, ctx, cfg), env)
    IN IF ~checkPermission("write", ctx)
       THEN [st |-> logAccess(w.st, key, "write", ctx, FALSE, "Permission denied"),
             ok |-> FALSE, threw |-> FALSE, denied |-> TRUE]
       ELSE IF w.threw
            THEN [st |-> logAccess(w.st, key, "write", ctx, FALSE, w.error),
                  ok |-> FALSE, threw |-> FALSE, denied |-> FALSE]
            ELSE [st |-> w.st, ok |-> TRUE, threw |-> FALSE, denied |-> FALSE]

\* EnhancedSecretManager.set: the store after the call, the boolean returned,
\* whether the call threw, and whether the permission check refused it
set(S, key, value, ctx, cfg, env) ==
    LET S1 == logAccess(S, key, "write", ctx, TRUE, NoError)
    IN IF ~checkPermission("write", ctx)
       THEN [st |-> logAccess(S1, key, "write", ctx, FALSE, "Permission denied"),
             ok |-> FALSE, threw |-> FALSE, denied |-> TRUE]
       ELSE IF (cfg.validationMethod \/ cfg.type # NoType)
               /\ ~validateEnvVar(value, cfg.type, cfg.validationMethod, env.strategyOk)
       THEN [st |-> logAccess(S1, key, "write", ctx, FALSE, "Validation failed"),
             ok |-> FALSE, threw |-> FALSE, denied |-> FALSE]
       ELSE LET w == WriteByLevel(S1, key, value, ctx, FullConfig(value, ctx, cfg), env)
            IN IF w.threw
               THEN [st |-> logAccess(w.st, key, "write", ctx, FALSE, w.error),
                     ok |-> FALSE, threw |-> FALSE, denied |-> FALSE]
               ELSE [st |-> w.st, ok |-> TRUE, threw |-> FALSE, denied |-> FALSE]

(***************************************************************************)
(* Listing and sharing.                                                    *)
(***************************************************************************)
\* a listing entry that keeps the value
WithoutValue_KeepsValue(config) == config

\* { ...config, value: undefined }
WithoutValue(config) == [config EXCEPT !.value = Undefined]

\* EnhancedSecretManager.list: key -> metadata, or the error it throws
list(S, ctx) ==
    CASE ctx.level = "global" ->
           [threw |-> FALSE,
            entries |-> [k \in Keys |-> WithoutValue(S.secretCache["global"][k])]]
      [] ctx.level = "world" ->
           IF ctx.worldId = NoId
           THEN [threw |-> TRUE, entries |-> [k \in Keys |-> NoConfig]]
           ELSE [threw |-> FALSE,
                 entries |-> [k \in Keys |->
                    IF ctx.worldId \in WorldIds
                    THEN WithoutValue(S.secretCache[ctx.worldId][k])
                    ELSE NoConfig]]
      [] ctx.level = "user" ->
           IF ctx.userId = NoId
           THEN [threw |-> TRUE, entries |-> [k \in Keys |-> NoConfig]]
           ELSE [threw |-> FALSE,
                 entries |-> [k \in Keys |->
                    IF ctx.userId \in Users /\ S.components[ctx.userId][k].present
                    THEN WithoutValue(S.components[ctx.userId][k].metadata)
                    ELSE NoConfig]]
      [] OTHER -> [threw |-> FALSE, entries |-> [k \in Keys |-> NoConfig]]

\* EnhancedSecretManager.getSecretConfig: metadata[key] || null
getSecretConfig(S, key, ctx) == list(S, ctx).entries[key]

\* the Partial<SecretConfig> that updateSecretConfig hands to set
AsPartial(config) ==
    [encrypted |-> IF config.encrypted THEN "yes" ELSE "no",
     type |-> config.type,
     validationMethod |-> FALSE,
     hasPermissions |-> config.hasPermissions,
     permissions |-> config.permissions]

\* EnhancedSecretManager.updateSecretConfig
updateSecretConfig(S, key, ctx, config, env) ==
    LET g == get(S, key, ctx)
    IN IF g.out = Null
       THEN [st |-> g.st, ok |-> FALSE]
       ELSE LET w == set(g.st, key, g.out, ctx, AsPartial(config), env)
            IN [st |-> w.st, ok |-> w.ok]

\* the list the secret cache holds for a config that list() copied shallowly:
\* config.permissions.push mutates it in place
PushedInCache(S, key, ctx, permission) ==
    LET name == IF ctx.level = "global" THEN "global" ELSE ctx.worldId
    IN IF ctx.level \in {"global", "world"}
       THEN [S EXCEPT !.secretCache[name][key].permissions = Append(@, permission)]
       ELSE S

\* EnhancedSecretManager.grantAccess
grantAccess(S, key, ctx, grantee, permissions, env) ==
    IF ~checkPermission("share", ctx)
    THEN [st |-> S, ok |-> FALSE, denied |-> TRUE]
    ELSE LET config == getSecretConfig(S, key, ctx)
             newPermission == [entityId |-> grantee, permissions |-> permissions,
                               grantedBy |-> AccessedBy(ctx)]
         IN IF ~config.present
            THEN [st |-> S, ok |-> FALSE, denied |-> FALSE]
            ELSE LET S1 == IF config.hasPermissions
                           THEN PushedInCache(S, key, ctx, newPermission)
                           ELSE S
                     granted == [config EXCEPT
                                   !.hasPermissions = TRUE,
                                   !.permissions = Append(@, newPermission),
                                   !.hasSharedWith = TRUE,
                                   !.sharedWith = <<grantee>>]
                     u == updateSecretConfig(S1, key, ctx, granted, env)
                 IN [st |-> u.st, ok |-> u.ok, denied |-> FALSE]

\* Array.prototype.filter on a list of permissions
RECURSIVE WithoutEntity(_, _)
WithoutEntity(perms, grantee) ==
    IF perms = <<>> THEN <<>>
    ELSE IF Head(perms).entityId = grantee
         THEN WithoutEntity(Tail(perms), grantee)
         ELSE <<Head(perms)>> \o WithoutEntity(Tail(perms), grantee)

\* EnhancedSecretManager.revokeAccess
revokeAccess(S, key, ctx, grantee, env) ==
    IF ~checkPermission("share", ctx)
    THEN [st |-> S, ok |-> FALSE, denied |-> TRUE]
    ELSE LET config == getSecretConfig(S, key, ctx)
         IN IF ~config.present
            THEN [st |-> S, ok |-> FALSE, denied |-> FALSE]
            ELSE LET revoked == [config EXCEPT
                                   !.hasPermissions = TRUE,
                                   !.permissions = WithoutEntity(@, grantee),
                                   !.hasSharedWith = TRUE,
                                   !.sharedWith = <<>>]
                     u == updateSecretConfig(S, key, ctx, revoked, env)
                 IN [st |-> u.st, ok |-> u.ok, denied |-> FALSE]

\* Array.prototype.find on a list of permissions: the index of the first entry
\* of the entity, or 0
FirstOf(perms, entityId) ==
    IF \E i \in 1..Len(perms) : perms[i].entityId = entityId
    THEN CHOOSE i \in 1..Len(perms) :
            /\ perms[i].entityId = entityId
            /\ \A j \in 1..(i - 1) : perms[j].entityId # entityId
    ELSE 0

\* EnhancedSecretManager.checkAccess
checkAccess(S, key, ctx, entityId, permission) ==
    LET config == getSecretConfig(S, key, ctx)
    IN IF ~config.present \/ ~config.hasPermissions THEN FALSE
       ELSE IF entityId = NoId THEN FALSE
       ELSE IF FirstOf(config.permissions, entityId) = 0 THEN FALSE
       ELSE permission \in config.permissions[FirstOf(config.permissions, entityId)].permissions

(***************************************************************************)
(* SecretFormService: requests, schemas and the validation of a body.      *)
(***************************************************************************)
\* the first port a form server gets
FirstPort == 10000
\* request.expiresIn || 30 * 60 * 1000, in minutes
DefaultExpiresIn == 30
\* NgrokService.DEFAULT_TUNNEL_DURATION, in minutes
DEFAULT_TUNNEL_DURATION == 30
\* number of requests and calls one behaviour of the form service receives
MaxFormOps == 3

\* nanoid(): the form server on the k-th port carries session k and tunnel k
SessionIds == 1..MaxFormOps
TunnelIds == 1..MaxFormOps
Ports == FirstPort..(FirstPort + MaxFormOps - 1)
SessionIdOf(port) == port - FirstPort + 1
TunnelIdOf(port) == port - FirstPort + 1

\* value.length of the values a body carries
StrLen(v) == IF v = "" THEN 0 ELSE IF v = "x" THEN 1 ELSE 2

\* a validation rule of a field: pattern and custom rules accept a set of values
Rule(type, value, accepts, message) ==
    [type |-> type, value |-> value, accepts |-> accepts, message |-> message]

\* the Partial<SecretConfig> of a requested secret; required: "unset", "yes", "no"
FormConfig(type, required) ==
    [encrypted |-> "unset", type |-> type, validationMethod |-> FALSE,
     hasPermissions |-> FALSE, permissions |-> <<>>, required |-> required]

\* one entry of request.secrets: key, config and field.validation of the overrides
Secret(key, config, validation) ==
    [key |-> key, config |-> config, validation |-> validation]

\* SecretFormRequest; maxSubmissions = 0 and expiresIn = 0 stand for absent
Request(secrets, maxSubmissions, expiresIn) ==
    [secrets |-> secrets, maxSubmissions |-> maxSubmissions, expiresIn |-> expiresIn]

NoRequest == Request(<<>>, 0, 0)

\* FormFieldPresets[config.type || 'text'] || {}: the presets are keyed apiKey,
\* email, webhookUrl, creditCard, privateKey, jsonConfig; no secret type is
\* one of these keys, so the preset of a secret contributes no rule
PresetValidation(type) == <<>>

\* SecretFormService.createFormField
createFormField(key, config, validation) ==
    [name |-> key,
     required |-> IF config.required = "unset" THEN TRUE ELSE config.required = "yes",
     validation |-> IF validation # <<>> THEN validation ELSE PresetValidation(config.type)]

\* SecretFormService.generateFormSchema, called at time t
generateFormSchema(request, t) ==
    [fields |-> [i \in 1..Len(request.secrets) |->
                    createFormField(request.secrets[i].key, request.secrets[i].config,
                                    request.secrets[i].validation)],
     expiresAt |-> t + (IF request.expiresIn # 0 THEN request.expiresIn
                        ELSE DefaultExpiresIn),
     maxSubmissions |-> IF request.maxSubmissions # 0 THEN request.maxSubmissions ELSE 1]

NoSchema == [fields |-> <<>>, expiresAt |-> 0, maxSubmissions |-> 0]

\* one case of the switch over rule.type
RuleHolds(rule, value) ==
    CASE rule.type = "required" -> value # ""
      [] rule.type = "minLength" -> StrLen(value) >= rule.value
      [] rule.type = "maxLength" -> StrLen(value) <= rule.value
      [] rule.type = "pattern" -> value \in rule.accepts
      [] rule.type = "custom" -> value \in rule.accepts
      [] OTHER -> TRUE

\* validateSubmission without the `break` after the first failing rule
FieldError_LastFailing(field, data) ==
    LET value == data[field.name]
        failing == {i \in 1..Len(field.validation) : ~RuleHolds(field.validation[i], value)}
    IN IF field.required /\ value = "" THEN "is required"
       ELSE IF value # "" /\ failing # {}
            THEN field.validation[CHOOSE i \in failing : \A j \in failing : i >= j].message
            ELSE NoError

\* errors[field.name] of validateSubmission, or NoError
FieldError(field, data) ==
    LET value == data[field.name]
        failing == {i \in 1..Len(field.validation) : ~RuleHolds(field.validation[i], value)}
    IN IF field.required /\ value = "" THEN "is required"
       ELSE IF value # "" /\ failing # {}
            THEN field.validation[CHOOSE i \in failing : \A j \in failing : i <= j].message
            ELSE NoError

\* SecretFormService.validateSubmission
validateSubmission(schema, data) ==
    LET errors == [i \in 1..Len(schema.fields) |-> FieldError(schema.fields[i], data)]
    IN [valid |-> \A i \in 1..Len(schema.fields) : errors[i] = NoError,
        errors |-> errors]

\* the next secret at or after index i that storeSubmittedSecrets does not skip
\* (`if (!value) continue`), or 0
NextToStore(secrets, data, i) ==
    LET rest == {j \in i..Len(secrets) : data[secrets[j].key] # ""}
    IN IF rest = {} THEN 0 ELSE CHOOSE j \in rest : \A k \in rest : j <= k

(***************************************************************************)
(* SecretFormService and NgrokService: sessions, servers, tunnels and the  *)
(* teardown of a session.                                                  *)
(***************************************************************************)
\* a FormSession object; context is the SecretContext its routes close over
NoSession ==
    [created |-> FALSE, tunnelId |-> 0, port |-> 0, schema |-> NoSchema,
     request |-> NoRequest, expiresAt |-> 0, submissions |-> <<>>,
     status |-> "none", hasCallback |-> FALSE,
     context |-> Ctx("", NoId, NoId, NoId)]

\* a Tunnel of NgrokService.tunnels (present = the map has the id)
NoTunnel == [present |-> FALSE, port |-> 0, expiresAt |-> 0]
\* an entry of NgrokService.tunnelTimeouts: the time it fires at, and whether
\* the timer is still pending
NoTimeout == [present |-> FALSE, at |-> 0, pending |-> FALSE]

\* the form service and its tunnel provider as one value
Form ==
    [sessions |-> sessions, forms |-> forms, servers |-> servers,
     listeners |-> listeners, tunnels |-> tunnels,
     tunnelTimeouts |-> tunnelTimeouts, closing |-> closing,
     closeTunnelCalls |-> closeTunnelCalls, serverCloseCalls |-> serverCloseCalls]

EmptyForm ==
    [sessions |-> <<>>,
     forms |-> [id \in SessionIds |-> NoSession],
     servers |-> {},
     listeners |-> [p \in Ports |-> "none"],
     tunnels |-> [t \in TunnelIds |-> NoTunnel],
     tunnelTimeouts |-> [t \in TunnelIds |-> NoTimeout],
     closing |-> EmptyBag,
     closeTunnelCalls |-> [t \in TunnelIds |-> 0],
     serverCloseCalls |-> [p \in Ports |-> 0]]

FormIs(F) ==
    /\ sessions' = F.sessions
    /\ forms' = F.forms
    /\ servers' = F.servers
    /\ listeners' = F.listeners
    /\ tunnels' = F.tunnels
    /\ tunnelTimeouts' = F.tunnelTimeouts
    /\ closing' = F.closing
    /\ closeTunnelCalls' = F.closeTunnelCalls
    /\ serverCloseCalls' = F.serverCloseCalls

\* this.sessions.has(id)
Registered(F, id) == \E i \in 1..Len(F.sessions) : F.sessions[i] = id

\* this.sessions.delete(id)
RECURSIVE WithoutSession(_, _)
WithoutSession(ids, id) ==
    IF ids = <<>> THEN <<>>
    ELSE IF Head(ids) = id THEN WithoutSession(Tail(ids), id)
         ELSE <<Head(ids)>> \o WithoutSession(Tail(ids), id)

\* SecretFormService.getSession
getSession(F, id) ==
    IF id \in SessionIds /\ Registered(F, id) THEN F.forms[id] ELSE NoSession

\* getAvailablePort taking the lowest port no server is registered for
getAvailablePort_LowestFree(srv, next) ==
    CHOOSE p \in Ports : p \notin srv /\ \A q \in Ports : q \notin srv => p <= q

\* SecretFormService.getAvailablePort
getAvailablePort(srv, next) ==
    CHOOSE p \in Ports : p >= next /\ p \notin srv
                         /\ \A q \in Ports : (q >= next /\ q \notin srv) => p <= q

\* who runs closeSession: the operation, and the ids it set out to close
Caller(op, ids) == [op |-> op, ids |-> ids]
NoCaller == Caller("none", <<>>)

\* a teardown in flight: the ids closeSession is still to be called with (the
\* head is the one being closed), what it awaits, the tunnel it disconnects,
\* and who runs it
Chain(queue, pc, tid, by) == [queue |-> queue, pc |-> pc, tid |-> tid, by |-> by]

\* server.close() on the server of a port
ServerClosed(state) == IF state = "listening" THEN "closing" ELSE state

RECURSIVE RunClose(_, _, _)
RECURSIVE AfterTunnel(_, _, _)

\* `for (const id of queue) await this.closeSession(id)`, run up to the next
\* await of a teardown: closeSession returns at once for an id the registry
\* lacks, and closeTunnel returns at once for a tunnel the provider lacks
RunClose(F, queue, by) ==
    IF queue = <<>> THEN F
    ELSE IF ~(Head(queue) \in SessionIds /\ Registered(F, Head(queue)))
    THEN RunClose(F, Tail(queue), by)
    ELSE LET tid == F.forms[Head(queue)].tunnelId
             F1 == [F EXCEPT !.closeTunnelCalls[tid] = @ + 1]
         IN IF F.tunnels[tid].present
            THEN [F1 EXCEPT !.closing = @ (+) SetToBag({Chain(queue, "tunnel", tid, by)})]
            ELSE AfterTunnel(F1, queue, by)

\* closeSession after closeTunnel returned: the server of the port is closed
\* if the server map has it, else the session is removed at once
AfterTunnel(F, queue, by) ==
    LET port == F.forms[Head(queue)].port
    IN IF port \in F.servers
       THEN [F EXCEPT !.listeners[port] = ServerClosed(@),
                      !.serverCloseCalls[port] = @ + 1,
                      !.closing = @ (+) SetToBag({Chain(queue, "server", 0, by)})]
       ELSE RunClose([F EXCEPT !.sessions = WithoutSession(@, Head(queue))],
                     Tail(queue), by)

\* closeSession without `this.servers.delete(session.port)`
AfterServer_KeepsEntry(F, queue, by) ==
    LET port == F.forms[Head(queue)].port
    IN RunClose([F EXCEPT !.listeners[port] = "closed",
                          !.sessions = WithoutSession(@, Head(queue))],
                Tail(queue), by)

\* closeSession after the callback of server.close()
AfterServer(F, queue, by) ==
    LET port == F.forms[Head(queue)].port
    IN RunClose([F EXCEPT !.listeners[port] = "closed",
                          !.servers = @ \ {port},
                          !.sessions = WithoutSession(@, Head(queue))],
                Tail(queue), by)

\* NgrokService.isTunnelActive at time t
isTunnelActive(F, tid, t) ==
    IF ~F.tunnels[tid].present THEN FALSE ELSE t < F.tunnels[tid].expiresAt

\* closeTunnel dropping the tunnel whether or not disconnect succeeded
closeTunnel_DropsAnyway(F, tid, disconnected) ==
    [F EXCEPT !.tunnelTimeouts[tid] = NoTimeout, !.tunnels[tid] = NoTunnel]

\* NgrokService.closeTunnel after ngrok.disconnect: the timeout is cleared and
\* the tunnel removed, unless disconnect threw (the error is caught and logged)
closeTunnel(F, tid, disconnected) ==
    IF disconnected
    THEN [F EXCEPT !.tunnelTimeouts[tid] = NoTimeout, !.tunnels[tid] = NoTunnel]
    ELSE F

\* SecretFormService.closeSession(id), up to its first await of a teardown
closeSession(F, id) == RunClose(F, <<id>>, Caller("closeSession", <<id>>))

\* whether the run that led from F0 to F1 has returned: no teardown of it is
\* left to await
RunReturned(F0, F1) == BagCardinality(F1.closing) <= BagCardinality(F0.closing)

\* cleanupExpiredSessions without the test of expiresAt and status
ExpiredSessions_All(F, t) == F.sessions

\* the ids cleanupExpiredSessions collects at time t
ExpiredSessions(F, t) ==
    LET Expired(id) == t >= F.forms[id].expiresAt \/ F.forms[id].status = "completed"
    IN SelectSeq(F.sessions, Expired)

\* the end of the submit handler without the test of submissions.length
FinishSubmission_AlwaysCompletes(F, id, callbackOk) ==
    LET session == F.forms[id]
        F1 == closeSession([F EXCEPT !.forms[id].status = "completed"], id)
    IN [form |-> F1,
        called |-> session.hasCallback,
        code |-> IF session.hasCallback /\ ~callbackOk THEN 500 ELSE 200]

\* the end of the submit handler with `>` in place of `>=`
FinishSubmission_OffByOne(F, id, callbackOk) ==
    LET session == F.forms[id]
        full == Len(session.submissions) > session.schema.maxSubmissions
        F1 == IF full
              THEN closeSession([F EXCEPT !.forms[id].status = "completed"], id)
              ELSE F
    IN [form |-> F1,
        called |-> session.hasCallback,
        code |-> IF session.hasCallback /\ ~callbackOk THEN 500 ELSE 200]

\* the submit handler from the end of storeSubmittedSecrets on: the session
\* completes and starts closing when submissions.length reached the maximum,
\* then the callback runs, then the response is sent
FinishSubmission(F, id, callbackOk) ==
    LET session == F.forms[id]
        full == Len(session.submissions) >= session.schema.maxSubmissions
        F1 == IF full
              THEN closeSession([F EXCEPT !.forms[id].status = "completed"], id)
              ELSE F
    IN [form |-> F1,
        called |-> session.hasCallback,
        code |-> IF session.hasCallback /\ ~callbackOk THEN 500 ELSE 200]

\* the record of the last step: the session it concerns, the HTTP status
\* answered (0: none), the body, the result of SecretStore.set in this step
\* ("none", "yes", "no"), whether the session's callback ran, the error map
\* of a 400 answer (by field index) and the caller whose run of closeSession
\* calls returned in this step; for a disconnect that settled, its tunnel
\* and its outcome ("yes", "no"); for extendTunnel its tunnel, the time added
\* and the boolean returned
Event(op, sid, code, data, stored, called) ==
    [op |-> op, sid |-> sid, code |-> code, data |-> data, stored |-> stored,
     called |-> called, errors |-> <<>>, returned |-> NoCaller,
     tid |-> 0, disconnected |-> "none", extra |-> 0, ok |-> FALSE]

NoData == [k \in Keys |-> ""]
NoEvent == Event("none", 0, 0, NoData, "none", FALSE)

\* the secrets forms ask for
ApiKeySecret == Secret("K1", FormConfig("api_key", "unset"), <<>>)
OptionalSecret == Secret("ENV_K1", FormConfig("secret", "no"), <<>>)
RuledSecret ==
    Secret("K1", FormConfig("api_key", "yes"),
           <<Rule("minLength", 2, {}, "too short"),
             Rule("pattern", 0, {"s1"}, "invalid format")>>)

\* the contexts forms are created with: the one the REQUEST_SECRET_FORM action
\* and the e2e suite build (the agent requests for the user), and the user's own
ActionContext == Ctx("user", NoId, "alice", AgentId)
OwnerContext == Ctx("user", NoId, "alice", "alice")

\* a body posted to the submit route (an absent field reads as "")
Body(k1, envK1) == [k \in Keys |-> IF k = "K1" THEN k1 ELSE envK1]

\* the bodies posted to the form of a request: one that fills every field, and
\* ones that leave out a field or break its rules
Bodies(request) ==
    IF request.secrets = <<RuledSecret>>
    THEN {Body("s1", ""), Body("s2", ""), Body("x", ""), Body("", "")}
    ELSE IF Len(request.secrets) = 2
    THEN {Body("s1", ""), Body("s2", "s2"), Body("", "s1")}
    ELSE {Body("s1", ""), Body("", "s1")}

\* what the secret store's collaborators do while a submitted secret is stored
FormEnvs == {CalmEnv, [CalmEnv EXCEPT !.storeOk = FALSE]}

\* what createSecretForm is called with: request, context, and whether a
\* callback is passed
Kind(request, context, hasCallback) ==
    [request |-> request, context |-> context, hasCallback |-> hasCallback]

\* the calls of createSecretForm: the one of the REQUEST_SECRET_FORM action
\* (one secret, the agent as requester, a callback), the same form for the
\* user's own context, a form for two secrets and two submissions in either
\* context, and a form with rules that expires after a minute
FormKinds ==
    {Kind(Request(<<ApiKeySecret>>, 0, 0), ActionContext, TRUE),
     Kind(Request(<<ApiKeySecret>>, 0, 0), OwnerContext, FALSE),
     Kind(Request(<<ApiKeySecret, OptionalSecret>>, 2, 0), OwnerContext, TRUE),
     Kind(Request(<<ApiKeySecret, OptionalSecret>>, 2, 0), ActionContext, FALSE),
     Kind(Request(<<RuledSecret>>, 1, 1), OwnerContext, TRUE)}

(***************************************************************************)
(* The store as a state machine: one action per call of the public API.    *)
(***************************************************************************)
\* the record of the last call
\* the text MANAGE_SECRET passes to its callback: the sentence, and the key,
\* the level, the count and the "- key: description (type)" lines put into it
Text(msg, key, level, items) ==
    [msg |-> msg, key |-> key, level |-> level, count |-> Cardinality(items),
     items |-> items]
NoText == Text("", "", "", {})

Call(op, key, value, ctx, cfg, env, grantee, ok, out, threw, denied) ==
    [op |-> op, key |-> key, value |-> value, ctx |-> ctx, cfg |-> cfg, env |-> env,
     grantee |-> grantee, permissions |-> {}, ok |-> ok, out |-> out, threw |-> threw,
     denied |-> denied, operation |-> "", text |-> NoText]

NoCall ==
    Call("none", "", "", Ctx("", NoId, NoId, NoId), UnsetConfig, CalmEnv, NoId,
         FALSE, Null, FALSE, FALSE)

\* the configs callers pass to set
EncryptedYes == [UnsetConfig EXCEPT !.encrypted = "yes"]
EncryptedNo == [UnsetConfig EXCEPT !.encrypted = "no"]
TypedPlain == [UnsetConfig EXCEPT !.encrypted = "no", !.type = "api_key"]
WithStrategy == [UnsetConfig EXCEPT !.type = "api_key", !.validationMethod = TRUE]

\* the calls of set tried: a config, and what the collaborators do meanwhile
SetCalls ==
    {<<UnsetConfig, CalmEnv>>,
     <<UnsetConfig, [CalmEnv EXCEPT !.storeOk = FALSE]>>,
     <<EncryptedYes, [CalmEnv EXCEPT !.iv = 2]>>,
     <<EncryptedNo, CalmEnv>>,
     <<TypedPlain, CalmEnv>>,
     <<WithStrategy, [CalmEnv EXCEPT !.strategyOk = FALSE]>>}

\* the keys the calls of a scope use: the ENV_ prefix matters at global scope only
KeysOf(sc, ctx) == IF ctx.level = "global" THEN Keys ELSE {"K1"}

\* whom access is granted to, and the permission sets granted
Grantees == {"carol"}
PermissionSets == {{"read"}, {"read", "write"}}

StoreIs(S) ==
    /\ secretCache' = S.secretCache
    /\ envVars' = S.envVars
    /\ worlds' = S.worlds
    /\ components' = S.components
    /\ accessLogs' = S.accessLogs
    /\ logged' = S.logged

\* no call of set is under way for the key
NoSetCall ==
    [pc |-> "none", value |-> "", ctx |-> Ctx("", NoId, NoId, NoId), config |-> NoConfig,
     existingComponents |-> [k \in Keys |-> NoComponent], env |-> CalmEnv,
     ok |-> FALSE, overlapped |-> FALSE]

StoreInit ==
    /\ secretCache = EmptyStore.secretCache
    /\ envVars = EmptyStore.envVars
    /\ worlds = EmptyStore.worlds
    /\ components = EmptyStore.components
    /\ accessLogs = EmptyStore.accessLogs
    /\ logged = EmptyStore.logged
    /\ ops = 0
    /\ last = NoCall
    /\ setting = [k \in Keys |-> NoSetCall]

FormInit ==
    /\ sessions = EmptyForm.sessions
    /\ forms = EmptyForm.forms
    /\ servers = EmptyForm.servers
    /\ listeners = EmptyForm.listeners
    /\ nextPort = FirstPort
    /\ tunnels = EmptyForm.tunnels
    /\ tunnelTimeouts = EmptyForm.tunnelTimeouts
    /\ creating = EmptyBag
    /\ submitting = EmptyBag
    /\ closing = EmptyBag
    /\ closeTunnelCalls = EmptyForm.closeTunnelCalls
    /\ serverCloseCalls = EmptyForm.serverCloseCalls
    /\ callbacks = [id \in SessionIds |-> 0]
    /\ now = 0
    /\ swept = 0
    /\ formOps = 0
    /\ event = NoEvent

Init ==
    /\ StoreInit
    /\ FormInit
    /\ scope \in Scopes
    /\ asked = [request |-> NoRequest, context |-> Ctx("", NoId, NoId, NoId),
                hasCallback |-> FALSE]

Set(key, value, ctx, cfg, env) ==
    LET r == set(Store, key, value, ctx, cfg, env)
    IN /\ ops < MaxOps
       /\ StoreIs(r.st)
       /\ ops' = ops + 1
       /\ UNCHANGED <<scope, setting>>
       /\ UNCHANGED formVars
       /\ last' = Call("set", key, value, ctx, cfg, env, NoId, r.ok, Null, r.threw, r.denied)

Get(key, ctx) ==
    LET r == get(Store, key, ctx)
    IN /\ ops < MaxOps
       /\ StoreIs(r.st)
       /\ ops' = ops + 1
       /\ UNCHANGED <<scope, setting>>
       /\ UNCHANGED formVars
       /\ last' = Call("get", key, "", ctx, UnsetConfig, CalmEnv, NoId,
                       r.out # Null, r.out, r.threw, r.denied)

GrantAccess(key, ctx, grantee, permissions, env) ==
    LET r == grantAccess(Store, key, ctx, grantee, permissions, env)
    IN /\ ops < MaxOps
       /\ StoreIs(r.st)
       /\ ops' = ops + 1
       /\ UNCHANGED <<scope, setting>>
       /\ UNCHANGED formVars
       /\ last' = [Call("grant", key, "", ctx, UnsetConfig, env, grantee,
                        r.ok, Null, FALSE, r.denied) EXCEPT !.permissions = permissions]

RevokeAccess(key, ctx, grantee, env) ==
    LET r == revokeAccess(Store, key, ctx, grantee, env)
    IN /\ ops < MaxOps
       /\ StoreIs(r.st)
       /\ ops' = ops + 1
       /\ UNCHANGED <<scope, setting>>
       /\ UNCHANGED formVars
       /\ last' = Call("revoke", key, "", ctx, UnsetConfig, env, grantee,
                       r.ok, Null, FALSE, r.denied)

\* the backing store damages the authentication tag of a user's encrypted secret
CorruptAuthTag(userId, key) ==
    /\ components[userId][key].present
    /\ components[userId][key].value.kind = "object"
    /\ components[userId][key].value.authTag # CorruptTag
    /\ components' = [components EXCEPT ![userId][key].value.authTag = CorruptTag]
    /\ last' = [NoCall EXCEPT !.op = "corrupt", !.key = key]
    /\ UNCHANGED <<secretCache, envVars, worlds, accessLogs, logged, scope, ops, setting>>
    /\ UNCHANGED formVars

Next ==
    \/ \E ctx \in ContextsOf(scope), value \in Values, call \in SetCalls :
         \E key \in KeysOf(scope, ctx) : Set(key, value, ctx, call[1], call[2])
    \/ \E ctx \in ContextsOf(scope) : \E key \in KeysOf(scope, ctx) : Get(key, ctx)
    \/ \E ctx \in ContextsOf(scope), grantee \in Grantees, permissions \in PermissionSets :
         \E key \in KeysOf(scope, ctx) : GrantAccess(key, ctx, grantee, permissions, CalmEnv)
    \/ \E ctx \in ContextsOf(scope), grantee \in Grantees :
         \E key \in KeysOf(scope, ctx) : RevokeAccess(key, ctx, grantee, CalmEnv)
    \/ \E userId \in Users, key \in Keys : CorruptAuthTag(userId, key)

Spec == Init /\ [][Next]_vars

\* one permitted requester for each scope instance: the global scope, two
\* worlds and two users
ScopeInstances ==
    {Ctx("global", NoId, NoId, AgentId), Ctx("world", "w1", NoId, "alice"),
     Ctx("world", "w2", NoId, "alice"), Ctx("user", NoId, "alice", "alice"),
     Ctx("user", NoId, "bob", "bob"), Ctx("user", NoId, "alice", "carol")}

\* a manager that holds nothing; K1 at global scope; also in world w1; also
\* for alice; and with alice's K1 shared with carol for reading
InitScopes ==
    LET g == set(EmptyStore, "K1", "s1", Ctx("global", NoId, NoId, AgentId),
                 UnsetConfig, CalmEnv).st
        w == set(g, "K1", "s2", Ctx("world", "w1", NoId, "alice"),
                 UnsetConfig, CalmEnv).st
        u == set(w, "K1", "s3", Ctx("user", NoId, "alice", "alice"),
                 UnsetConfig, CalmEnv).st
        h == grantAccess(u, "K1", Ctx("user", NoId, "alice", "alice"), "carol",
                         {"read"}, CalmEnv).st
    IN /\ \E S \in {EmptyStore, g, w, u, h} :
            /\ secretCache = S.secretCache
            /\ envVars = S.envVars
            /\ worlds = S.worlds
            /\ components = S.components
            /\ accessLogs = S.accessLogs
            /\ logged = S.logged
       /\ ops = 0
       /\ last = NoCall
       /\ setting = [k \in Keys |-> NoSetCall]
       /\ FormInit
       /\ scope = "mixed"
       /\ asked = [request |-> NoRequest, context |-> Ctx("", NoId, NoId, NoId),
                   hasCallback |-> FALSE]

\* calls of set, get, grantAccess and revokeAccess for K1 at the scope instances
NextScopes ==
    \/ \E ctx \in ScopeInstances, value \in {"s2", "s3"},
          call \in {<<UnsetConfig, CalmEnv>>,
                    <<EncryptedNo, [CalmEnv EXCEPT !.storeOk = FALSE]>>} :
         Set("K1", value, ctx, call[1], call[2])
    \/ \E ctx \in ScopeInstances : Get("K1", ctx)
    \/ \E ctx \in ScopeInstances, grantee \in Grantees, permissions \in PermissionSets :
         GrantAccess("K1", ctx, grantee, permissions, CalmEnv)
    \/ \E ctx \in ScopeInstances, grantee \in Grantees :
         RevokeAccess("K1", ctx, grantee, CalmEnv)

SpecScopes == InitScopes /\ [][NextScopes]_vars

\* a manager whose access log is full or nearly so: it has served n reads
\* and has stored nothing (a member of world w1 asked for K1 first, then
\* alice kept asking for her own K1)
InitLog ==
    /\ secretCache = EmptyStore.secretCache
    /\ envVars = EmptyStore.envVars
    /\ worlds = EmptyStore.worlds
    /\ components = EmptyStore.components
    /\ \E n \in (MaxAccessLogs - 2)..MaxAccessLogs :
         LET first == logAccess(EmptyStore, "K1", "read",
                                Ctx("world", "w1", NoId, "carol"), TRUE, NoError)
             other == logAccess(EmptyStore, "K1", "read",
                                Ctx("user", NoId, "alice", "alice"), TRUE, NoError)
         IN /\ accessLogs = [i \in 1..n |-> IF i = 1 THEN first.accessLogs[1]
                                                      ELSE other.accessLogs[1]]
            /\ logged = n
    /\ ops = 0
    /\ last = NoCall
    /\ setting = [k \in Keys |-> NoSetCall]
    /\ FormInit
    /\ scope = "user"
    /\ asked = [request |-> NoRequest, context |-> Ctx("", NoId, NoId, NoId),
                hasCallback |-> FALSE]

\* the calls made then: the owner's and a stranger's, with a backing store
\* that takes the write or rejects it
NextLog ==
  LET LogContexts == {Ctx("user", NoId, "alice", "alice"),
                      Ctx("user", NoId, "alice", "bob")}
  IN
    \/ \E ctx \in LogContexts, env \in {CalmEnv, [CalmEnv EXCEPT !.storeOk = FALSE]} :
         Set("K1", "s1", ctx, UnsetConfig, env)
    \/ \E ctx \in LogContexts : Get("K1", ctx)
    \/ \E ctx \in LogContexts, permissions \in PermissionSets :
         GrantAccess("K1", ctx, "carol", permissions, CalmEnv)
    \/ \E ctx \in LogContexts : RevokeAccess("K1", ctx, "carol", CalmEnv)

SpecLog == InitLog /\ [][NextLog]_vars

(***************************************************************************)
(* Calls of set at user scope that overlap: each call runs to its next     *)
(* await of the component store, then another call may run.                *)
(***************************************************************************)
\* set from its entry to `await this.runtime.getComponents(userId)`
BeginSet(key, value, ctx) ==
    LET S1 == logAccess(Store, key, "write", ctx, TRUE, NoError)
        permitted == checkPermission("write", ctx)
        underway == {k \in Keys : setting[k].pc \in {"getComponents", "write"}}
        call == [pc |-> IF permitted THEN "getComponents" ELSE "done",
                 value |-> value, ctx |-> ctx,
                 config |-> FullConfig(value, ctx, UnsetConfig),
                 existingComponents |-> NoSetCall.existingComponents,
                 env |-> CalmEnv, ok |-> FALSE, overlapped |-> underway # {}]
    IN /\ setting[key].pc = "none"
       /\ StoreIs(IF permitted THEN S1
                  ELSE logAccess(S1, key, "write", ctx, FALSE, "Permission denied"))
       /\ setting' = [k \in Keys |->
              IF k = key THEN call
              ELSE IF k \in underway THEN [setting[k] EXCEPT !.overlapped = TRUE]
              ELSE setting[k]]
       /\ UNCHANGED <<scope, ops, last>>
       /\ UNCHANGED formVars

\* setUserSecret: getComponents resolves with the user's components
GetComponents(key) ==
    /\ setting[key].pc = "getComponents"
    /\ setting' = [setting EXCEPT
          ![key].existingComponents = components[setting[key].ctx.userId],
          ![key].pc = "write"]
    /\ UNCHANGED <<storeVars, scope, ops, last>>
    /\ UNCHANGED formVars

\* the write of setUserSecret putting back every component it read
WriteComponent_PutsBackAll(key, env) ==
    LET c == setting[key]
        userId == c.ctx.userId
        S == [Store EXCEPT !.components[userId] = c.existingComponents]
        w == setUserSecret(S, key, c.value, userId, c.config, env)
    IN /\ c.pc = "write"
       /\ StoreIs(IF w.threw
                  THEN logAccess(Store, key, "write", c.ctx, FALSE, w.error)
                  ELSE w.st)
       /\ setting' = [setting EXCEPT ![key].pc = "done", ![key].env = env,
                                     ![key].ok = ~w.threw]
       /\ UNCHANGED <<scope, ops, last>>
       /\ UNCHANGED formVars

\* setUserSecret: updateComponent or createComponent of the key's component
\* settles, and set returns (true, or false from its catch)
WriteComponent(key, env) ==
    LET c == setting[key]
        w == setUserSecret(Store, key, c.value, c.ctx.userId, c.config, env)
    IN /\ c.pc = "write"
       /\ StoreIs(IF w.threw
                  THEN logAccess(Store, key, "write", c.ctx, FALSE, w.error)
                  ELSE w.st)
       /\ setting' = [setting EXCEPT ![key].pc = "done", ![key].env = env,
                                     ![key].ok = ~w.threw]
       /\ UNCHANGED <<scope, ops, last>>
       /\ UNCHANGED formVars

\* a manager that holds nothing, or K1 of alice already
InitConcurrent ==
    LET u == set(EmptyStore, "K1", "s3", Ctx("user", NoId, "alice", "alice"),
                 UnsetConfig, CalmEnv).st
    IN /\ \E S \in {EmptyStore, u} :
            /\ secretCache = S.secretCache
            /\ envVars = S.envVars
            /\ worlds = S.worlds
            /\ components = S.components
            /\ accessLogs = S.accessLogs
            /\ logged = S.logged
       /\ ops = 0
       /\ last = NoCall
       /\ setting = [k \in Keys |-> NoSetCall]
       /\ FormInit
       /\ scope = "user"
       /\ asked = [request |-> NoRequest, context |-> Ctx("", NoId, NoId, NoId),
                   hasCallback |-> FALSE]

\* calls of set for alice's keys, their steps in any order, and calls of get
NextConcurrent ==
    \/ \E key \in Keys, value \in {"s1", "s2"},
          ctx \in {Ctx("user", NoId, "alice", "alice"), Ctx("user", NoId, "alice", "bob")} :
         BeginSet(key, value, ctx)
    \/ \E key \in Keys : GetComponents(key)
    \/ \E key \in Keys, env \in {CalmEnv, [CalmEnv EXCEPT !.storeOk = FALSE]} :
         WriteComponent(key, env)
    \/ \E key \in Keys : Get(key, Ctx("user", NoId, "alice", "alice"))

SpecConcurrent == InitConcurrent /\ [][NextConcurrent]_vars

(***************************************************************************)
(* The form service as a state machine: one action per request, call,      *)
(* timer and completion of an awaited operation.                           *)
(***************************************************************************)
InitForm ==
    /\ StoreInit
    /\ FormInit
    /\ scope = "user"
    /\ asked \in FormKinds

\* createSecretForm with server.listen moved before createTunnel
CreateSecretForm_ListensFirst(request, context, hasCallback) ==
    LET port == getAvailablePort(servers, nextPort)
    IN /\ formOps < MaxFormOps
       /\ nextPort' = port + 1
       /\ listeners' = [listeners EXCEPT ![port] = "listening"]
       /\ creating' = creating (+) SetToBag({
              [request |-> request, context |-> context, hasCallback |-> hasCallback,
               schema |-> generateFormSchema(request, now), port |-> port,
               pc |-> "tunnel"]})
       /\ formOps' = formOps + 1
       /\ event' = Event("createSecretForm", SessionIdOf(port), 0, NoData, "none", FALSE)
       /\ UNCHANGED <<sessions, forms, servers, tunnels, tunnelTimeouts, submitting,
                      closing, closeTunnelCalls, serverCloseCalls, callbacks, now, swept>>
       /\ UNCHANGED <<storeVars, scope, ops, last, setting, asked>>

\* createSecretForm up to `await this.ngrokService.createTunnel(...)`
CreateSecretForm(request, context, hasCallback) ==
    LET port == getAvailablePort(servers, nextPort)
    IN /\ formOps < MaxFormOps
       /\ nextPort' = port + 1
       /\ listeners' = [listeners EXCEPT ![port] = "created"]
       /\ creating' = creating (+) SetToBag({
              [request |-> request, context |-> context, hasCallback |-> hasCallback,
               schema |-> generateFormSchema(request, now), port |-> port,
               pc |-> "tunnel"]})
       /\ formOps' = formOps + 1
       /\ event' = Event("createSecretForm", SessionIdOf(port), 0, NoData, "none", FALSE)
       /\ UNCHANGED <<sessions, forms, servers, tunnels, tunnelTimeouts, submitting,
                      closing, closeTunnelCalls, serverCloseCalls, callbacks, now, swept>>
       /\ UNCHANGED <<storeVars, scope, ops, last, setting, asked>>

\* createTunnel that sets no automatic cleanup
TunnelCreated_NoTimer(c, connected) ==
    LET tid == TunnelIdOf(c.port)
        sid == SessionIdOf(c.port)
        duration == IF c.request.expiresIn # 0 THEN c.request.expiresIn
                    ELSE DEFAULT_TUNNEL_DURATION
    IN /\ c.pc = "tunnel"
       /\ IF connected
          THEN /\ tunnels' = [tunnels EXCEPT ![tid] =
                     [present |-> TRUE, port |-> c.port, expiresAt |-> now + duration]]
               /\ UNCHANGED tunnelTimeouts
               /\ forms' = [forms EXCEPT ![sid] =
                     [created |-> TRUE, tunnelId |-> tid, port |-> c.port,
                      schema |-> c.schema, request |-> c.request,
                      expiresAt |-> c.schema.expiresAt, submissions |-> <<>>,
                      status |-> "active", hasCallback |-> c.hasCallback,
                      context |-> c.context]]
               /\ sessions' = Append(sessions, sid)
               /\ creating' = (creating (-) SetToBag({c}))
                                (+) SetToBag({[c EXCEPT !.pc = "listen"]})
               /\ event' = Event("tunnelCreated", sid, 0, NoData, "none", FALSE)
          ELSE /\ creating' = creating (-) SetToBag({c})
               /\ event' = Event("createFailed", sid, 0, NoData, "none", FALSE)
               /\ UNCHANGED <<tunnels, tunnelTimeouts, forms, sessions>>
       /\ UNCHANGED <<servers, listeners, nextPort, submitting, closing,
                      closeTunnelCalls, serverCloseCalls, callbacks, now, swept, formOps>>
       /\ UNCHANGED <<storeVars, scope, ops, last, setting, asked>>

\* NgrokService.createTunnel after `await ngrok.connect(...)`, and
\* createSecretForm from there to `await server.listen`: when connect failed
\* the error is rethrown to the caller of createSecretForm
TunnelCreated(c, connected) ==
    LET tid == TunnelIdOf(c.port)
        sid == SessionIdOf(c.port)
        duration == IF c.request.expiresIn # 0 THEN c.request.expiresIn
                    ELSE DEFAULT_TUNNEL_DURATION
    IN /\ c.pc = "tunnel"
       /\ IF connected
          THEN /\ tunnels' = [tunnels EXCEPT ![tid] =
                     [present |-> TRUE, port |-> c.port, expiresAt |-> now + duration]]
               /\ tunnelTimeouts' = [tunnelTimeouts EXCEPT ![tid] =
                     [present |-> TRUE, at |-> now + duration, pending |-> TRUE]]
               /\ forms' = [forms EXCEPT ![sid] =
                     [created |-> TRUE, tunnelId |-> tid, port |-> c.port,
                      schema |-> c.schema, request |-> c.request,
                      expiresAt |-> c.schema.expiresAt, submissions |-> <<>>,
                      status |-> "active", hasCallback |-> c.hasCallback,
                      context |-> c.context]]
               /\ sessions' = Append(sessions, sid)
               /\ creating' = (creating (-) SetToBag({c}))
                                (+) SetToBag({[c EXCEPT !.pc = "listen"]})
               /\ event' = Event("tunnelCreated", sid, 0, NoData, "none", FALSE)
          ELSE /\ creating' = creating (-) SetToBag({c})
               /\ event' = Event("createFailed", sid, 0, NoData, "none", FALSE)
               /\ UNCHANGED <<tunnels, tunnelTimeouts, forms, sessions>>
       /\ UNCHANGED <<servers, listeners, nextPort, submitting, closing,
                      closeTunnelCalls, serverCloseCalls, callbacks, now, swept, formOps>>
       /\ UNCHANGED <<storeVars, scope, ops, last, setting, asked>>

\* the callback of server.listen, and createSecretForm from there to its return
ServerListening(c) ==
    /\ c.pc = "listen"
    /\ listeners' = [listeners EXCEPT ![c.port] = "listening"]
    /\ servers' = servers \cup {c.port}
    /\ creating' = creating (-) SetToBag({c})
    /\ event' = Event("created", SessionIdOf(c.port), 0, NoData, "none", FALSE)
    /\ UNCHANGED <<sessions, forms, nextPort, tunnels, tunnelTimeouts, submitting,
                   closing, closeTunnelCalls, serverCloseCalls, callbacks, now, swept,
                   formOps>>
    /\ UNCHANGED <<storeVars, scope, ops, last, setting, asked>>

\* POST /api/form/:id/submit up to its first await of SecretStore.set (to its
\* end when the session is not active, the body is invalid or no secret has a
\* value); the server still serves requests of open connections while closing
Submit(sid, data, callbackOk) ==
    LET session == forms[sid]
        validation == validateSubmission(session.schema, data)
        pushed == [Form EXCEPT !.forms[sid].submissions =
                      Append(@, [data |-> data, submittedAt |-> now])]
        first == NextToStore(session.request.secrets, data, 1)
        fin == FinishSubmission(pushed, sid, callbackOk)
    IN /\ formOps < MaxFormOps
       /\ session.created
       /\ listeners[session.port] \in {"listening", "closing"}
       /\ session.hasCallback \/ callbackOk
       /\ formOps' = formOps + 1
       /\ IF session.status # "active"
          THEN /\ event' = Event("submit", sid, 410, data, "none", FALSE)
               /\ UNCHANGED <<sessions, forms, servers, listeners, tunnels,
                              tunnelTimeouts, closing, closeTunnelCalls,
                              serverCloseCalls, submitting, callbacks>>
          ELSE IF ~validation.valid
          THEN /\ event' = [Event("submit", sid, 400, data, "none", FALSE)
                               EXCEPT !.errors = validation.errors]
               /\ UNCHANGED <<sessions, forms, servers, listeners, tunnels,
                              tunnelTimeouts, closing, closeTunnelCalls,
                              serverCloseCalls, submitting, callbacks>>
          ELSE IF first # 0
          THEN /\ FormIs(pushed)
               /\ submitting' = submitting (+) SetToBag({
                      [sid |-> sid, data |-> data, i |-> first]})
               /\ event' = Event("submit", sid, 0, data, "none", FALSE)
               /\ UNCHANGED callbacks
          ELSE /\ FormIs(fin.form)
               /\ callbacks' = [callbacks EXCEPT ![sid] = IF fin.called THEN @ + 1 ELSE @]
               /\ event' = Event("submit", sid, fin.code, data, "none", fin.called)
               /\ UNCHANGED submitting
       /\ UNCHANGED <<nextPort, creating, now, swept>>
       /\ UNCHANGED <<storeVars, scope, ops, last, setting, asked>>

\* storeSubmittedSecrets: one `await this.secretsManager.set(...)` returns (its
\* boolean is not looked at); after the last one the handler runs to its end.
\* An error thrown by set is rethrown and the handler answers 500.
StoreSecret(h, env, callbackOk) ==
    LET session == forms[h.sid]
        secret == session.request.secrets[h.i]
        r == set(Store, secret.key, h.data[secret.key], session.context,
                 secret.config, env)
        next == NextToStore(session.request.secrets, h.data, h.i + 1)
        fin == FinishSubmission(Form, h.sid, callbackOk)
        stored == IF r.ok THEN "yes" ELSE "no"
    IN /\ session.hasCallback \/ callbackOk
       /\ StoreIs(r.st)
       /\ IF r.threw
          THEN /\ submitting' = submitting (-) SetToBag({h})
               /\ event' = Event("store", h.sid, 500, h.data, "threw", FALSE)
               /\ UNCHANGED <<sessions, forms, servers, listeners, tunnels,
                              tunnelTimeouts, closing, closeTunnelCalls,
                              serverCloseCalls, callbacks>>
          ELSE IF next # 0
          THEN /\ submitting' = (submitting (-) SetToBag({h}))
                                  (+) SetToBag({[h EXCEPT !.i = next]})
               /\ event' = Event("store", h.sid, 0, h.data, stored, FALSE)
               /\ UNCHANGED <<sessions, forms, servers, listeners, tunnels,
                              tunnelTimeouts, closing, closeTunnelCalls,
                              serverCloseCalls, callbacks>>
          ELSE /\ submitting' = submitting (-) SetToBag({h})
               /\ FormIs(fin.form)
               /\ callbacks' = [callbacks EXCEPT ![h.sid] = IF fin.called THEN @ + 1 ELSE @]
               /\ event' = Event("store", h.sid, fin.code, h.data, stored, fin.called)
       /\ UNCHANGED <<nextPort, creating, now, swept, formOps>>
       /\ UNCHANGED <<scope, ops, last, setting, asked>>

\* an awaited teardown completes: ngrok.disconnect returns or throws inside
\* closeTunnel, or server.close calls back; closeSession runs on from there
Teardown(c, disconnected) ==
    LET F0 == [Form EXCEPT !.closing = @ (-) SetToBag({c})]
        F1 == closeTunnel(F0, c.tid, disconnected)
        F2 == IF c.pc = "server" THEN AfterServer(F0, c.queue, c.by)
              ELSE IF c.queue = <<>> THEN F1
              ELSE AfterTunnel(F1, c.queue, c.by)
    IN /\ c.pc = "server" => disconnected
       /\ FormIs(F2)
       /\ event' = [Event("teardown", IF c.queue = <<>> THEN 0 ELSE Head(c.queue), 0,
                          NoData, "none", FALSE)
                       EXCEPT !.returned = IF RunReturned(F0, F2) THEN c.by ELSE NoCaller,
                              !.tid = c.tid,
                              !.disconnected = IF c.pc # "tunnel" THEN "none"
                                               ELSE IF disconnected THEN "yes" ELSE "no"]
       /\ UNCHANGED <<nextPort, creating, submitting, callbacks, now, swept, formOps>>
       /\ UNCHANGED <<storeVars, scope, ops, last, setting, asked>>

\* a call of closeSession(id) from outside: with an id createSecretForm has
\* returned, or with one that names no session
CloseSession(sid) ==
    LET by == Caller("closeSession", <<sid>>)
        F1 == closeSession(Form, sid)
    IN /\ formOps < MaxFormOps
       /\ ~\E c \in BagToSet(creating) : SessionIdOf(c.port) = sid
       /\ FormIs(F1)
       /\ formOps' = formOps + 1
       /\ event' = [Event("closeSession", sid, 0, NoData, "none", FALSE)
                       EXCEPT !.returned = IF RunReturned(Form, F1) THEN by ELSE NoCaller]
       /\ UNCHANGED <<nextPort, creating, submitting, callbacks, now, swept>>
       /\ UNCHANGED <<storeVars, scope, ops, last, setting, asked>>

\* the interval timer of start() fires, once a minute, and runs
\* cleanupExpiredSessions; a run that collects no session changes nothing
CleanupExpiredSessions ==
    LET by == Caller("cleanupExpiredSessions", ExpiredSessions(Form, now))
        F1 == RunClose(Form, by.ids, by)
    IN /\ swept < now
       /\ by.ids # <<>>
       /\ swept' = now
       /\ FormIs(F1)
       /\ event' = [Event("cleanupExpiredSessions", 0, 0, NoData, "none", FALSE)
                       EXCEPT !.returned = IF RunReturned(Form, F1) THEN by ELSE NoCaller]
       /\ UNCHANGED <<nextPort, creating, submitting, callbacks, now, formOps>>
       /\ UNCHANGED <<storeVars, scope, ops, last, setting, asked>>

\* SecretFormService.stop
Stop ==
    LET by == Caller("stop", sessions)
        F1 == RunClose(Form, by.ids, by)
    IN /\ formOps < MaxFormOps
       /\ FormIs(F1)
       /\ formOps' = formOps + 1
       /\ event' = [Event("stop", 0, 0, NoData, "none", FALSE)
                       EXCEPT !.returned = IF RunReturned(Form, F1) THEN by ELSE NoCaller]
       /\ UNCHANGED <<nextPort, creating, submitting, callbacks, now, swept>>
       /\ UNCHANGED <<storeVars, scope, ops, last, setting, asked>>

\* the timeout createTunnel set fires and calls closeTunnel(tunnelId)
TunnelTimeout(tid) ==
    /\ tunnelTimeouts[tid].present
    /\ tunnelTimeouts[tid].pending
    /\ now >= tunnelTimeouts[tid].at
    /\ tunnelTimeouts' = [tunnelTimeouts EXCEPT ![tid].pending = FALSE]
    /\ closeTunnelCalls' = [closeTunnelCalls EXCEPT ![tid] = @ + 1]
    /\ closing' = IF tunnels[tid].present
                  THEN closing (+) SetToBag({Chain(<<>>, "tunnel", tid,
                                                   Caller("tunnelTimeout", <<>>))})
                  ELSE closing
    /\ event' = Event("tunnelTimeout", 0, 0, NoData, "none", FALSE)
    /\ UNCHANGED <<sessions, forms, servers, listeners, nextPort, tunnels, creating,
                   submitting, serverCloseCalls, callbacks, now, swept, formOps>>
    /\ UNCHANGED <<storeVars, scope, ops, last, setting, asked>>

\* a minute passes
Tick ==
    /\ formOps < MaxFormOps
    /\ now' = now + 1
    /\ formOps' = formOps + 1
    /\ event' = Event("tick", 0, 0, NoData, "none", FALSE)
    /\ UNCHANGED <<sessions, forms, servers, listeners, nextPort, tunnels,
                   tunnelTimeouts, creating, submitting, closing, closeTunnelCalls,
                   serverCloseCalls, callbacks, swept>>
    /\ UNCHANGED <<storeVars, scope, ops, last, setting, asked>>

NextForm ==
    \/ CreateSecretForm(asked.request, asked.context, asked.hasCallback)
    \/ \E c \in BagToSet(creating), connected \in BOOLEAN : TunnelCreated(c, connected)
    \/ \E c \in BagToSet(creating) : ServerListening(c)
    \/ \E sid \in SessionIds, data \in Bodies(asked.request), callbackOk \in BOOLEAN :
         Submit(sid, data, callbackOk)
    \/ \E h \in BagToSet(submitting), env \in FormEnvs, callbackOk \in BOOLEAN :
         StoreSecret(h, env, callbackOk)
    \/ \E c \in BagToSet(closing), disconnected \in BOOLEAN : Teardown(c, disconnected)
    \/ \E sid \in SessionIds : CloseSession(sid)
    \/ CleanupExpiredSessions
    \/ Stop
    \/ \E tid \in TunnelIds : TunnelTimeout(tid)
    \/ Tick

SpecForm == InitForm /\ [][NextForm]_vars

\* what the event loop guarantees: the interval timer of start() and the
\* timeout of a tunnel fire when they are due, and an awaited call
\* (createTunnel, listen, SecretStore.set, ngrok.disconnect, server.close)
\* settles
FairForm ==
    /\ WF_vars(CleanupExpiredSessions)
    /\ WF_vars(\E tid \in TunnelIds : TunnelTimeout(tid))
    /\ WF_vars(\E c \in BagToSet(creating), connected \in BOOLEAN : TunnelCreated(c, connected))
    /\ WF_vars(\E c \in BagToSet(creating) : ServerListening(c))
    /\ WF_vars(\E h \in BagToSet(submitting), env \in FormEnvs, callbackOk \in BOOLEAN :
                 StoreSecret(h, env, callbackOk))
    /\ WF_vars(\E c \in BagToSet(closing), disconnected \in BOOLEAN : Teardown(c, disconnected))

SpecFormLive == SpecForm /\ FairForm

(***************************************************************************)
(* The MANAGE_SECRET action.                                               *)
(***************************************************************************)
\* the handler with a get branch that puts the value into the text
manageSecret_ShowsValue(S, operation, key, value, context, env) ==
    CASE operation = "get" ->
           IF key = ""
           THEN [st |-> S, ok |-> TRUE,
                 text |-> Text("Please provide a key to retrieve", "", "", {})]
           ELSE LET r == get(S, key, context)
                IN [st |-> r.st, ok |-> TRUE,
                    text |-> IF r.out = Null
                             THEN Text("not found or access denied", key, "", {})
                             ELSE Text(r.out, key, "", {})]
      [] operation = "set" ->
           IF key = "" \/ value = ""
           THEN [st |-> S, ok |-> TRUE,
                 text |-> Text("Please provide both key and value to set", "", "", {})]
           ELSE LET r == set(S, key, value, context,
                             [UnsetConfig EXCEPT !.type = "secret", !.encrypted = "yes"],
                             env)
                IN [st |-> r.st, ok |-> TRUE,
                    text |-> IF r.ok
                             THEN Text("Successfully set", key, context.level, {})
                             ELSE Text("Failed to set - check permissions", key, "", {})]
      [] operation = "delete" ->
           \* set(key, null, context): at world and user scope encrypt(null)
           \* throws inside the writer, which set catches like a failed write
           IF key = ""
           THEN [st |-> S, ok |-> TRUE,
                 text |-> Text("Please provide a key to delete", "", "", {})]
           ELSE LET r == set(S, key, Null, context, UnsetConfig,
                             IF context.level = "global" THEN env
                             ELSE [env EXCEPT !.storeOk = FALSE])
                IN [st |-> r.st, ok |-> TRUE,
                    text |-> IF r.ok
                             THEN Text("Successfully deleted", key, context.level, {})
                             ELSE Text("Failed to delete - check permissions", key, "", {})]
      [] operation = "list" ->
           LET l == list(S, context)
               found == {k \in Keys : l.entries[k].present}
           IN IF l.threw
              THEN [st |-> S, ok |-> FALSE,
                    text |-> Text("Error managing secret", "", "", {})]
              ELSE [st |-> S, ok |-> TRUE,
                    text |-> IF found = {}
                             THEN Text("No secrets found", "", context.level, {})
                             ELSE Text("Found", "", context.level,
                                       {<<k, l.entries[k].type>> : k \in found})]
      [] OTHER -> [st |-> S, ok |-> TRUE, text |-> Text("Unknown operation", "", "", {})]

\* manageSecretAction.handler for the parsed operation, key and value and the
\* context built from the message: the store after it, the boolean returned
\* and the text passed to the callback
manageSecret(S, operation, key, value, context, env) ==
    CASE operation = "get" ->
           IF key = ""
           THEN [st |-> S, ok |-> TRUE,
                 text |-> Text("Please provide a key to retrieve", "", "", {})]
           ELSE LET r == get(S, key, context)
                IN [st |-> r.st, ok |-> TRUE,
                    text |-> IF r.out = Null
                             THEN Text("not found or access denied", key, "", {})
                             ELSE Text("exists and is accessible", key, "", {})]
      [] operation = "set" ->
           IF key = "" \/ value = ""
           THEN [st |-> S, ok |-> TRUE,
                 text |-> Text("Please provide both key and value to set", "", "", {})]
           ELSE LET r == set(S, key, value, context,
                             [UnsetConfig EXCEPT !.type = "secret", !.encrypted = "yes"],
                             env)
                IN [st |-> r.st, ok |-> TRUE,
                    text |-> IF r.ok
                             THEN Text("Successfully set", key, context.level, {})
                             ELSE Text("Failed to set - check permissions", key, "", {})]
      [] operation = "delete" ->
           \* set(key, null, context): at world and user scope encrypt(null)
           \* throws inside the writer, which set catches like a failed write
           IF key = ""
           THEN [st |-> S, ok |-> TRUE,
                 text |-> Text("Please provide a key to delete", "", "", {})]
           ELSE LET r == set(S, key, Null, context, UnsetConfig,
                             IF context.level = "global" THEN env
                             ELSE [env EXCEPT !.storeOk = FALSE])
                IN [st |-> r.st, ok |-> TRUE,
                    text |-> IF r.ok
                             THEN Text("Successfully deleted", key, context.level, {})
                             ELSE Text("Failed to delete - check permissions", key, "", {})]
      [] operation = "list" ->
           LET l == list(S, context)
               found == {k \in Keys : l.entries[k].present}
           IN IF l.threw
              THEN [st |-> S, ok |-> FALSE,
                    text |-> Text("Error managing secret", "", "", {})]
              ELSE [st |-> S, ok |-> TRUE,
                    text |-> IF found = {}
                             THEN Text("No secrets found", "", context.level, {})
                             ELSE Text("Found", "", context.level,
                                       {<<k, l.entries[k].type>> : k \in found})]
      [] OTHER -> [st |-> S, ok |-> TRUE, text |-> Text("Unknown operation", "", "", {})]

\* a message with the parameters params from the entity message.entityId in
\* the room message.roomId reaches the handler
ManageSecret(params, message, env) ==
    LET context == Ctx(IF params.level = "" THEN "user" ELSE params.level,
                       IF params.worldId = NoId THEN message.roomId ELSE params.worldId,
                       IF params.userId = NoId THEN message.entityId ELSE params.userId,
                       message.entityId)
        r == manageSecret(Store, params.operation, params.key, params.value, context, env)
    IN /\ ops < MaxOps
       /\ StoreIs(r.st)
       /\ ops' = ops + 1
       /\ UNCHANGED <<scope, setting>>
       /\ UNCHANGED formVars
       /\ last' = [Call("manage", params.key, params.value, context, UnsetConfig, env,
                        NoId, r.ok, Null, FALSE, FALSE)
                      EXCEPT !.operation = params.operation, !.text = r.text]

\* the messages MANAGE_SECRET is run with
NextAction ==
    \E operation \in {"get", "set", "delete", "list"},
       level \in {"", "global", "world"}, entityId \in {"alice", "bob", AgentId} :
       \E key \in IF operation = "get" THEN {"K1", ""} ELSE {"K1"},
          value \in IF operation = "set" THEN Values ELSE {""},
          env \in IF operation = "set" THEN {CalmEnv, [CalmEnv EXCEPT !.storeOk = FALSE]}
                  ELSE {CalmEnv} :
         ManageSecret([operation |-> operation, key |-> key, value |-> value,
                       level |-> level, worldId |-> NoId, userId |-> NoId],
                      [entityId |-> entityId, roomId |-> "w1"], env)

SpecAction == InitScopes /\ [][NextAction]_vars

(***************************************************************************)
(* The tunnel provider with calls of extendTunnel.                         *)
(***************************************************************************)
\* NgrokService.extendTunnel(tunnelId, additionalTime)
ExtendTunnel(tid, additionalTime) ==
    LET expiresAt == tunnels[tid].expiresAt + additionalTime
    IN /\ formOps < MaxFormOps
       /\ IF ~tunnels[tid].present
          THEN UNCHANGED <<tunnels, tunnelTimeouts>>
          ELSE /\ tunnels' = [tunnels EXCEPT ![tid].expiresAt = expiresAt]
               /\ tunnelTimeouts' = [tunnelTimeouts EXCEPT ![tid] =
                     [present |-> TRUE, at |-> expiresAt, pending |-> TRUE]]
       /\ formOps' = formOps + 1
       /\ event' = [Event("extendTunnel", 0, 0, NoData, "none", FALSE)
                       EXCEPT !.tid = tid, !.extra = additionalTime,
                              !.ok = tunnels[tid].present]
       /\ UNCHANGED <<sessions, forms, servers, listeners, nextPort, creating,
                      submitting, closing, closeTunnelCalls, serverCloseCalls,
                      callbacks, now, swept>>
       /\ UNCHANGED <<storeVars, scope, ops, last, setting, asked>>

\* tunnels are created for forms, extended, closed with their sessions and
\* by their timeouts
NextTunnel ==
    \/ CreateSecretForm(asked.request, asked.context, asked.hasCallback)
    \/ \E c \in BagToSet(creating), connected \in BOOLEAN : TunnelCreated(c, connected)
    \/ \E c \in BagToSet(creating) : ServerListening(c)
    \/ \E tid \in TunnelIds, additionalTime \in {1, 2} : ExtendTunnel(tid, additionalTime)
    \/ \E c \in BagToSet(closing), disconnected \in BOOLEAN : Teardown(c, disconnected)
    \/ \E sid \in SessionIds : CloseSession(sid)
    \/ \E tid \in TunnelIds : TunnelTimeout(tid)
    \/ Tick

SpecTunnel == InitForm /\ [][NextTunnel]_vars

(***************************************************************************)
(* Properties of the secret store.                                         *)
(***************************************************************************)
\* the collaborators accepted the last call of set: the value passed the
\* validation the config asked for (if any) and the backing store took the write
Accepted(c) ==
    /\ c.env.storeOk
    /\ (c.cfg.validationMethod \/ c.cfg.type # NoType)
         => validateEnvVar(c.value, c.cfg.type, c.cfg.validationMethod, c.env.strategyOk)

\* the secret content of the store: everything but the access log
Content(S) == <<S.secretCache, S.envVars, S.worlds, S.components>>

\* C1 (as claimed): after set(k, v, ctx) returned true, get(k, ctx) with the same
\* context returns exactly v, for every scope, value and encrypted setting.
C1_RoundTripAnyValue ==
    (last.op = "set" /\ last.ok) => get(Store, last.key, last.ctx).out = last.value

\* C1 (amended): after set(k, v, ctx) returned true for a non-empty value v,
\* get(k, ctx) with the same context returns exactly v, for every scope and
\* for encrypted true, false and defaulted.
C1_RoundTripNonEmpty ==
    (last.op = "set" /\ last.ok /\ last.value # "")
        => /\ get(Store, last.key, last.ctx).out = last.value
           /\ ~get(Store, last.key, last.ctx).denied

\* C1 witness: an encrypted user secret was just written by its owner
C1_Witness ==
    /\ last.op = "set" /\ last.ok /\ last.value = "s1"
    /\ last.ctx.level = "user"
    /\ components[last.ctx.userId][last.key].value.kind = "object"

\* the context in which a user reads their own secrets
OwnerCtx(userId) == Ctx("user", NoId, userId, userId)

C4_WorldReadMembersOnly ==
    (last.op = "get" /\ last.ctx.level = "world" /\ last.ctx.worldId \in WorldIds)
        => LET role == RoleOf(last.ctx.worldId, last.ctx.requesterId)
           IN /\ role = NONE => last.out = Null
              /\ role # NONE => ~last.denied

KeyAbsent(S, key, ctx) ==
    CASE ctx.level = "global" ->
           ~S.secretCache["global"][key].present /\ S.envVars[key] = Undefined
      [] ctx.level = "world" ->
           ctx.worldId \notin WorldIds
           \/ (~S.secretCache[ctx.worldId][key].present /\ ~S.worlds[ctx.worldId][key].present)
      [] ctx.level = "user" ->
           ctx.userId \notin Users \/ ~S.components[ctx.userId][key].present
      [] OTHER -> TRUE

\* the context lacks the identifier its scope needs
MissingScopeId(ctx) ==
    \/ ctx.level = "world" /\ ctx.worldId = NoId
    \/ ctx.level = "user" /\ ctx.userId = NoId

\* the calls the permission check lets through: who may do what
Permitted(action, ctx) ==
    CASE ctx.level = "global" -> action = "read" \/ ctx.requesterId = AgentId
      [] ctx.level = "world" /\ ctx.worldId \in WorldIds ->
           action = "read" \/ RoleOf(ctx.worldId, ctx.requesterId) \in {OWNER, ADMIN}
      [] ctx.level = "user" /\ ctx.userId # NoId -> ctx.requesterId = ctx.userId
      [] OTHER -> FALSE

\* C6: get returns null, without raising, for an absent key and for a refused
\* requester; set returns false, without raising and without changing any
\* stored secret, when the requester is refused or the scope's owning
\* identifier is missing.
C6_RefusalsAreValues ==
    [][/\ (last'.op = "get" /\ (~Permitted("read", last'.ctx)
                                \/ KeyAbsent(Store, last'.key, last'.ctx)))
            => last'.out = Null /\ ~last'.threw
       /\ (last'.op = "set" /\ (~Permitted("write", last'.ctx)
                                \/ MissingScopeId(last'.ctx)))
            => /\ ~last'.ok /\ ~last'.threw
               /\ Content(Store') = Content(Store)]_vars

\* C6 witness: a refused requester tried to overwrite a stored user secret
C6_Witness ==
    /\ last.op = "set" /\ ~last.ok /\ last.ctx.level = "user"
    /\ last.ctx.userId = "alice" /\ last.ctx.requesterId = AgentId
    /\ components["alice"][last.key].present

\* C7 (as claimed): get on a stored encrypted record whose authTag has been
\* corrupted raises an error to the caller instead of returning null.
C7_CorruptTagRaises ==
    (/\ last.op = "get" /\ last.ctx.level = "user" /\ last.ctx.userId \in Users
     /\ last.ctx.requesterId = last.ctx.userId
     /\ components[last.ctx.userId][last.key].present
     /\ components[last.ctx.userId][last.key].value.authTag = CorruptTag)
        => last.threw

\* C8: whatever calls were made, no entry of list(ctx) carries a value: the
\* value field of every listed entry is undefined, in every scope.
C8_ListHidesValues ==
    \A ctx \in Contexts :
        ~list(Store, ctx).threw
            => \A k \in Keys : list(Store, ctx).entries[k].value = Undefined

\* C8 witness: a user's secret is listed right after it was written and shared
C8_Witness ==
    /\ last.op = "grant" /\ last.ok /\ last.ctx.level = "user"
    /\ list(Store, last.ctx).entries[last.key].present
    /\ components[last.ctx.userId][last.key].metadata.value # Undefined

C10_SubmittedSecretReadable ==
    (/\ event.code = 200
     /\ forms[event.sid].request.secrets = <<ApiKeySecret>>
     /\ forms[event.sid].context = ActionContext)
        => /\ forms[event.sid].status = "completed"
           /\ get(Store, "K1", forms[event.sid].context).out = event.data["K1"]

\* a rule a submitted value breaks: too short, too long, or not accepted by
\* the pattern or the custom validator
Broken(rule, value) ==
    \/ rule.type = "minLength" /\ StrLen(value) < rule.value
    \/ rule.type = "maxLength" /\ StrLen(value) > rule.value
    \/ rule.type \in {"pattern", "custom"} /\ value \notin rule.accepts

\* the rules of a field that the submitted value breaks
BrokenRules(field, value) ==
    {i \in 1..Len(field.validation) : Broken(field.validation[i], value)}

\* a field fails validation: it is required and missing or empty, or its
\* value breaks one of its rules
FieldFails(field, value) ==
    IF value = "" THEN field.required ELSE BrokenRules(field, value) # {}

\* the message the error map holds for a failing field
MessageFor(field, value) ==
    IF value = "" THEN "is required"
    ELSE field.validation[CHOOSE i \in BrokenRules(field, value) :
                             \A j \in BrokenRules(field, value) : i <= j].message

\* C11: a submission to an active session in which some field fails
\* validation is answered 400 with an error map that has an entry for every
\* failing field (the required message, or the message of the first rule the
\* value breaks) and for no other field; SecretStore.set is not called and the
\* store is unchanged, no submission is appended, no handler is left storing,
\* the callback is not invoked and the session and its status are unchanged.
C11_InvalidSubmissionRejected ==
    [][(/\ event'.op = "submit"
        /\ forms[event'.sid].status = "active"
        /\ \E i \in 1..Len(forms[event'.sid].schema.fields) :
              FieldFails(forms[event'.sid].schema.fields[i],
                         event'.data[forms[event'.sid].schema.fields[i].name]))
          => /\ event'.code = 400
             /\ DOMAIN event'.errors = 1..Len(forms[event'.sid].schema.fields)
             /\ \A i \in 1..Len(forms[event'.sid].schema.fields) :
                   LET field == forms[event'.sid].schema.fields[i]
                       value == event'.data[field.name]
                   IN event'.errors[i] = IF FieldFails(field, value)
                                         THEN MessageFor(field, value)
                                         ELSE NoError
             /\ Store' = Store
             /\ forms' = forms
             /\ sessions' = sessions
             /\ submitting' = submitting
             /\ callbacks' = callbacks
             /\ closing' = closing]_vars

\* C11 witness: a value that breaks both rules of its field was turned away
\* with the message of the first rule, and the session is as it was
C11_Witness ==
    /\ event.op = "submit" /\ event.code = 400
    /\ event.data["K1"] = "x"
    /\ event.errors = <<"too short">>
    /\ forms[event.sid].status = "active"
    /\ forms[event.sid].submissions = <<>>
    /\ accessLogs = <<>>

\* C12 (as claimed): once the expiresIn of a session has elapsed, getSession
\* returns null or a session whose status is not active, whether or not
\* anyone closed the session.
C12_ExpiredSessionNotActive ==
    \A id \in SessionIds :
        (forms[id].created /\ now >= forms[id].expiresAt)
            => getSession(Form, id).status # "active"

\* C13 (as claimed): a submission that arrives once the expiresAt of its
\* session has passed is answered 410, and the handler neither stores a
\* secret nor starts to, nor appends a submission, whether or not the sweep
\* has run.
C13_LateSubmissionRejected ==
    [][(event'.op = "submit" /\ now >= forms[event'.sid].expiresAt)
          => /\ event'.code = 410
             /\ Store' = Store
             /\ submitting' = submitting
             /\ forms' = forms]_vars

\* C14: the status of a session changes only from active to completed, with
\* maxSubmissions submissions recorded, or from active to expired, with
\* expiresAt passed; a session object starts as active, and no step changes a
\* completed or expired status or sets a status back to active.
C14_StatusOnlyAdvances ==
    [][\A id \in SessionIds :
          forms'[id].status # forms[id].status
            => \/ /\ ~forms[id].created
                  /\ forms'[id].status = "active"
               \/ /\ forms[id].status = "active"
                  /\ forms'[id].status = "completed"
                  /\ Len(forms'[id].submissions) >= forms'[id].schema.maxSubmissions
               \/ /\ forms[id].status = "active"
                  /\ forms'[id].status = "expired"
                  /\ now >= forms[id].expiresAt]_vars

\* C14 witness: a session that completed was torn down and removed, and its
\* status is still completed
C14_Witness ==
    \E id \in SessionIds :
        /\ forms[id].status = "completed"
        /\ ~Registered(Form, id)
        /\ event.op = "teardown" /\ event.sid = id

Due(id) ==
    /\ Registered(Form, id)
    /\ now >= forms[id].expiresAt \/ forms[id].status = "completed"

\* the runs of the sweep that a step belongs to, each given by the ids it
\* collected: the run that starts in the step, and the run a teardown
\* completing in the step is part of
SweepStarted ==
    IF event'.returned.op = "cleanupExpiredSessions" THEN {event'.returned.ids}
    ELSE {c.by.ids : c \in {d \in BagToSet(closing') :
                                /\ d.by.op = "cleanupExpiredSessions"
                                /\ CopiesIn(d, closing') > CopiesIn(d, closing)}}
SweepResumed ==
    {c.by.ids : c \in {d \in BagToSet(closing) :
                            /\ d.by.op = "cleanupExpiredSessions"
                            /\ CopiesIn(d, closing') < CopiesIn(d, closing)}}

\* a step leaves the session, its tunnel and its server as they were
Untouched(id) ==
    LET tid == forms[id].tunnelId
        port == forms[id].port
    IN /\ Registered(Form', id)
       /\ forms'[id] = forms[id]
       /\ tunnels'[tid] = tunnels[tid]
       /\ tunnelTimeouts'[tid] = tunnelTimeouts[tid]
       /\ closeTunnelCalls'[tid] = closeTunnelCalls[tid]
       /\ listeners'[port] = listeners[port]
       /\ serverCloseCalls'[port] = serverCloseCalls[port]
       /\ (port \in servers') = (port \in servers)

C17_StopLeavesNoSession ==
    event.returned.op = "stop"
        => /\ sessions = <<>>
           /\ \A id \in SessionIds : getSession(Form, id) = NoSession
           /\ \A i \in 1..Len(event.returned.ids) :
                 closeTunnelCalls[forms[event.returned.ids[i]].tunnelId] = 1

\* the ports a form server listens on
Listening(served) == {p \in Ports : served[p] = "listening"}

\* C18: the steps of a call of createSecretForm whose createTunnel fails (the
\* call up to its await of createTunnel, and the rethrow of the error to the
\* caller) leave the session registry, the session objects, the tunnels, the
\* server map and the set of listening ports as they were.
C18_TunnelFailureRegistersNothing ==
    [][event'.op \in {"createSecretForm", "createFailed"}
         => /\ sessions' = sessions
            /\ forms' = forms
            /\ tunnels' = tunnels
            /\ servers' = servers
            /\ Listening(listeners') = Listening(listeners)]_vars

\* C18 witness: createSecretForm just threw the error of createTunnel while
\* another session is registered and served
C18_Witness ==
    /\ event.op = "createFailed"
    /\ ~Registered(Form, event.sid)
    /\ \E id \in SessionIds :
         /\ Registered(Form, id)
         /\ forms[id].port \in servers
         /\ forms[id].port \in Listening(listeners)

\* the session is out of the registry, its tunnel is closed (or the timeout
\* that will call closeTunnel for it has yet to fire), and its server is
\* closed and out of the server map
Released(id) ==
    /\ forms[id].created
    /\ ~Registered(Form, id)
    /\ \/ ~tunnels[forms[id].tunnelId].present
       \/ tunnelTimeouts[forms[id].tunnelId].pending
    /\ listeners[forms[id].port] = "closed"
    /\ forms[id].port \notin servers

\* C19 (as claimed): a registered session that is completed or whose
\* expiresAt has passed, with a tick of the sweep still to come, is eventually
\* out of the registry with its tunnel closed and its server torn down.
C19_EverySessionReleased ==
    \A id \in SessionIds : (Due(id) /\ swept < now) ~> Released(id)

\* C20 (as claimed): a submission whose session was removed from the registry
\* while the handler awaited SecretStore.set is not answered as a success.
\* (closeSession removes the session in the step in which its server becomes
\* closed, and a closed server takes no request: a handler that ends for a
\* removed session with a closed server was in flight when it was removed.)
C20_RemovedSessionNeverSucceeds ==
    [][(/\ event'.op = "store"
        /\ event'.code # 0
        /\ ~Registered(Form, event'.sid)
        /\ listeners[forms[event'.sid].port] = "closed") => event'.code # 200]_vars

\* the call of set made in this step raised an error inside the store (the
\* backing store rejected the write, or the value failed the store's
\* validation): its last log entry is a failure other than a denial
PersistFailed ==
    /\ accessLogs' # accessLogs
    /\ ~accessLogs'[Len(accessLogs')].success
    /\ accessLogs'[Len(accessLogs')].error # "Permission denied"

\* C21 (as claimed): when persisting one secret of a submission fails with an
\* error, the handler stops there: no later secret of the submission is
\* attempted and the request is answered as an error.
C21_PersistFailureStopsSubmission ==
    [][(event'.op = "store" /\ PersistFailed)
         => /\ event'.code = 500
            /\ BagCardinality(submitting') < BagCardinality(submitting)]_vars

\* C22: the access log never holds more than 1000 entries, and a step that
\* pushes k entries leaves the log as the last (at most 1000) entries of the
\* old log followed by the k new ones: the entries that go are the oldest,
\* the ones that stay keep their order, and an entry that went is not
\* retrievable.
C22_LogKeepsLast1000 ==
    [][LET k == logged' - logged
           total == Len(accessLogs) + k
           drop == IF total > MaxAccessLogs THEN total - MaxAccessLogs ELSE 0
       IN /\ Len(accessLogs') <= MaxAccessLogs
          /\ Len(accessLogs') = total - drop
          /\ \A i \in 1..(Len(accessLogs) - drop) : accessLogs'[i] = accessLogs[i + drop]
          /\ (drop > 0 /\ accessLogs[1].context.level = "world")
               => getAccessLogs(Store', "K1", Ctx("world", NoId, NoId, NoId)) = <<>>]_vars

\* C22 witness: more than 1000 entries were pushed, the log holds 1000, and
\* the first entry ever pushed is gone
C22_Witness ==
    /\ logged > MaxAccessLogs
    /\ Len(accessLogs) = MaxAccessLogs
    /\ accessLogs[1].context.level # "world"
    /\ getAccessLogs(Store, "K1", Ctx("world", "w1", NoId, NoId)) = <<>>

\* C23 (as claimed): every call of get, set, grantAccess or revokeAccess
\* pushes exactly one entry to the access log, whatever its outcome.
C23_OneEntryPerCall ==
    [][(ops' = ops + 1 /\ last'.op \in {"get", "set", "grant", "revoke"})
         => logged' = logged + 1]_vars

\* the entries the last call pushed to the access log
Pushed == SubSeq(accessLogs', Len(accessLogs') - (logged' - logged) + 1, Len(accessLogs'))

\* C24 (as claimed): a get or set that the permission rules deny pushes an
\* entry with success = false for its key, action and context, and pushes no
\* entry that records the call as a success.
C24_DeniedLoggedAsFailure ==
    [][(ops' = ops + 1 /\ last'.op \in {"get", "set"} /\ last'.denied)
         => /\ \E i \in 1..Len(Pushed) :
                 /\ ~Pushed[i].success
                 /\ Pushed[i].secretKey = last'.key
                 /\ Pushed[i].action = (IF last'.op = "get" THEN "read" ELSE "write")
                 /\ Pushed[i].context = last'.ctx
            /\ \A i \in 1..Len(Pushed) : ~Pushed[i].success]_vars

\* C25: a set at one scope instance leaves what get returns for the same key
\* at every other scope instance (another scope, another world, another user)
\* as it was, and when it returned true get with its own context returns the
\* value written.
C25_ScopesIndependent ==
    [][(ops' = ops + 1 /\ last'.op = "set")
         => /\ \A other \in ScopeInstances \ {last'.ctx} :
                 get(Store', last'.key, other).out = get(Store, last'.key, other).out
            /\ last'.ok => get(Store', last'.key, last'.ctx).out = last'.value]_vars

\* C25 witness: after a set, K1 holds three different values at once, at
\* global scope, in world w1 and for alice, and nothing in world w2 and for bob
C25_Witness ==
    /\ last.op = "set" /\ last.ok
    /\ get(Store, "K1", Ctx("global", NoId, NoId, AgentId)).out = "s1"
    /\ get(Store, "K1", Ctx("world", "w1", NoId, "alice")).out = "s2"
    /\ get(Store, "K1", Ctx("user", NoId, "alice", "alice")).out = "s3"
    /\ get(Store, "K1", Ctx("world", "w2", NoId, "alice")).out = Null
    /\ get(Store, "K1", Ctx("user", NoId, "bob", "bob")).out = Null

\* C26 (as claimed): after grantAccess returned true, checkAccess is true for
\* the grantee and every permission granted, whatever was granted before;
\* after revokeAccess returned true, checkAccess is false for the grantee
\* and every permission.
C26_GrantThenCheck ==
    /\ (last.op = "grant" /\ last.ok)
         => \A p \in last.permissions :
              checkAccess(Store, last.key, last.ctx, last.grantee, p)
    /\ (last.op = "revoke" /\ last.ok)
         => \A p \in {"read", "write", "delete", "share"} :
              ~checkAccess(Store, last.key, last.ctx, last.grantee, p)

\* C27 (as claimed): in every stored secret record the persisted sharedWith
\* holds exactly the entityIds of the record's persisted permissions list.
C27_SharedWithMatchesPermissions ==
    LET records ==
            {secretCache[c][k] : c \in CacheNames, k \in Keys}
              \cup {worlds[w][k] : w \in WorldIds, k \in Keys}
              \cup {components[u][k].metadata : u \in Users, k \in Keys}
    IN \A rec \in records :
         rec.present =>
           {rec.sharedWith[i] : i \in DOMAIN rec.sharedWith}
             = {rec.permissions[i].entityId : i \in DOMAIN rec.permissions}

\* C28 (as claimed): a call of set whose persistence step (the world-record
\* update or the user-record create/update) was rejected by the backing store
\* ends with a thrown error, not with a returned false.
C28_StoreFailureThrown ==
    [][(/\ ops' = ops + 1
        /\ last'.op = "set"
        /\ ~last'.env.storeOk
        /\ accessLogs' # <<>>
        /\ accessLogs'[Len(accessLogs')].error
              \in {"updateWorld failed", "component store failed"})
         => last'.threw]_vars

\* C29: calls of set for distinct keys of one user scope that overlap each
\* return true, and get then returns for each key the value its call wrote
\* (the requester being permitted and the component store accepting the write).
C29_ConcurrentSetsKeepValues ==
    \A k \in Keys :
      (/\ setting[k].pc = "done"
       /\ checkPermission("write", setting[k].ctx)
       /\ setting[k].env.storeOk)
        => /\ setting[k].ok
           /\ get(Store, k, setting[k].ctx).out = setting[k].value

C29_Witness ==
    /\ \A k \in Keys : setting[k].pc = "done" /\ setting[k].overlapped /\ setting[k].ok
    /\ setting["K1"].value # setting["ENV_K1"].value
    /\ last.op = "get" /\ last.out = setting[last.key].value

\* C30: the ports createSecretForm hands out are strictly increasing: a port
\* handed out is one never handed out before (also when its session was closed
\* or its creation failed) and nextPort moves past it and never back, and no
\* two registered sessions have the same port, however the calls interleave.
C30_PortsStrictlyIncrease ==
    [][/\ nextPort' >= nextPort
       /\ (formOps' = formOps + 1 /\ event'.op = "createSecretForm")
            => LET port == event'.sid + FirstPort - 1
               IN /\ port >= nextPort
                  /\ nextPort' > port
                  /\ listeners[port] = "none"
                  /\ \A c \in BagToSet(creating) : c.port < port
                  /\ \A id \in SessionIds : forms[id].created => forms[id].port < port
       /\ \A a, b \in SessionIds :
            (Registered(Form', a) /\ Registered(Form', b) /\ a # b)
              => forms'[a].port # forms'[b].port]_vars

C30_Witness ==
    /\ event.op = "createSecretForm"
    /\ nextPort = FirstPort + 2
    /\ listeners[FirstPort] = "closed"
    /\ FirstPort \notin servers
    /\ \E c \in BagToSet(creating) : c.port = FirstPort + 1

(***************************************************************************)
(* Properties of the tunnel provider.                                      *)
(***************************************************************************)
\* closeTunnel(t) was called in this step
CloseTunnelCalled(t) == closeTunnelCalls'[t] > closeTunnelCalls[t]

\* the calls of ngrok.disconnect for tunnel t that are awaited
Disconnecting(cl, t) ==
    LET chains == {c \in BagToSet(cl) : c.pc = "tunnel" /\ c.tid = t}
    IN IF chains = {} THEN 0
       ELSE BagCardinality([c \in chains |-> CopiesIn(c, cl)])

\* C31: closeTunnel never raises. Called with an id the provider does not
\* track it calls no disconnect and changes nothing; when disconnect fails the
\* caller still runs on and the tunnel and its timer stay as they were; when
\* disconnect succeeds the tunnel and its auto-close timer are removed.
C31_CloseTunnelTolerant ==
    [][/\ \A t \in TunnelIds :
            (CloseTunnelCalled(t) /\ ~tunnels[t].present)
              => /\ Disconnecting(closing', t) <= Disconnecting(closing, t)
                 /\ tunnels'[t] = tunnels[t]
                 /\ tunnelTimeouts'[t].present = tunnelTimeouts[t].present
       /\ (event'.op = "teardown" /\ event'.disconnected = "no")
            => /\ tunnels'[event'.tid] = tunnels[event'.tid]
               /\ tunnelTimeouts'[event'.tid] = tunnelTimeouts[event'.tid]
               /\ event'.sid # 0
                    => \/ ~Registered(Form', event'.sid)
                       \/ \E c \in BagToSet(closing') :
                            c.pc = "server" /\ Head(c.queue) = event'.sid
       /\ (event'.op = "teardown" /\ event'.disconnected = "yes")
            => /\ tunnels'[event'.tid] = NoTunnel
               /\ tunnelTimeouts'[event'.tid] = NoTimeout]_vars

C31_Witness ==
    /\ event.op = "teardown"
    /\ event.disconnected = "no"
    /\ tunnels[event.tid].present
    /\ event.sid # 0
    /\ ~Registered(Form, event.sid)

\* the timer of tunnel t has fired and no disconnect of t is awaited
AutoCloseSpent(t) ==
    /\ tunnelTimeouts[t].present
    /\ ~tunnelTimeouts[t].pending
    /\ Disconnecting(closing, t) = 0

\* C32 (as claimed): every tunnel is disconnected and removed from the
\* registry by its auto-close once its duration has elapsed, whether or not
\* its session was closed, and is not active from its expiresAt onward.
C32_AutoCloseRemoves ==
    /\ [](\A t \in TunnelIds :
            (tunnels[t].present /\ now >= tunnels[t].expiresAt)
              => ~isTunnelActive(Form, t, now))
    /\ \A t \in TunnelIds :
         (tunnels[t].present /\ now >= tunnels[t].expiresAt) ~> ~tunnels[t].present

\* C32 (amended): once the duration has elapsed the tunnel is not active, and
\* it is removed from the registry unless the disconnect its auto-close
\* called has failed: then the timer is spent and the tunnel stays tracked.
C32_AutoCloseUnlessDisconnectFails ==
    /\ [](\A t \in TunnelIds :
            (tunnels[t].present /\ now >= tunnels[t].expiresAt)
              => ~isTunnelActive(Form, t, now))
    /\ \A t \in TunnelIds :
         (tunnels[t].present /\ now >= tunnels[t].expiresAt)
           ~> (~tunnels[t].present \/ AutoCloseSpent(t))

C32_Witness ==
    /\ event.op = "teardown"
    /\ event.disconnected = "yes"
    /\ event.returned.op = "tunnelTimeout"
    /\ forms[event.tid].created
    /\ now >= forms[event.tid].expiresAt
    /\ Registered(Form, event.tid)

\* C33 (as claimed): extendTunnel on a tracked tunnel returns true, adds
\* exactly the extra time to expiresAt and leaves one pending auto-close set
\* for the new expiresAt, and no auto-close removes a tunnel before its
\* expiresAt; on an unknown id it returns false and changes nothing.
C33_ExtendPostponesAutoClose ==
    [][/\ event'.op = "extendTunnel"
            => IF tunnels[event'.tid].present
               THEN /\ event'.ok
                    /\ tunnels'[event'.tid].expiresAt
                         = tunnels[event'.tid].expiresAt + event'.extra
                    /\ tunnelTimeouts'[event'.tid].present
                    /\ tunnelTimeouts'[event'.tid].pending
                    /\ tunnelTimeouts'[event'.tid].at = tunnels'[event'.tid].expiresAt
               ELSE /\ ~event'.ok
                    /\ UNCHANGED <<tunnels, tunnelTimeouts>>
       /\ (event'.op = "teardown" /\ event'.disconnected = "yes"
            /\ event'.returned.op = "tunnelTimeout" /\ tunnels[event'.tid].present)
            => now >= tunnels[event'.tid].expiresAt]_vars

(***************************************************************************)
(* Properties of the MANAGE_SECRET action.                                 *)
(***************************************************************************)
\* the text of the last run of the handler is the text of the run that was
\* supplied any other value of vs, and the text of this run after a secret of
\* its key was stored at its scope is the same for every stored value of vs
TextIndependentOf(vs) ==
    LET c == last'
        writer == Ctx(c.ctx.level, c.ctx.worldId, c.ctx.userId,
                      IF c.ctx.level = "global" THEN AgentId
                      ELSE IF c.ctx.level = "world" THEN "alice" ELSE c.ctx.userId)
        After(v, cfg) == set(Store, "K1", v, writer, cfg, CalmEnv)
        Run(S, v) == manageSecret(S, c.operation, c.key, v, c.ctx, c.env)
    IN /\ c.value \in vs => \A v \in vs : Run(Store, v).text = c.text
       /\ \A v1, v2 \in vs, cfg \in {UnsetConfig, EncryptedNo} :
            (After(v1, cfg).ok /\ After(v2, cfg).ok)
              => Run(After(v1, cfg).st, c.value).text = Run(After(v2, cfg).st, c.value).text

\* C34 (as claimed): the text MANAGE_SECRET passes to the callback is the
\* same for any two runs that differ only in the secret value stored or
\* supplied.
C34_TextHidesAnyValue ==
    [][(ops' = ops + 1 /\ last'.op = "manage") => TextIndependentOf(Values)]_vars

\* C34 (amended): the text is the same for any two runs that differ only in
\* a non-empty secret value stored or supplied.
C34_TextHidesNonEmptyValue ==
    [][(ops' = ops + 1 /\ last'.op = "manage") => TextIndependentOf(Values \ {""})]_vars

C34_Witness ==
    /\ last.op = "manage"
    /\ last.operation = "get"
    /\ last.text.msg = "exists and is accessible"
    /\ get(Store, last.key, last.ctx).out \in Values \ {""}

(***************************************************************************)
(* Further properties of the form service.                                 *)
(***************************************************************************)
\* C35 (as claimed): however the submit requests to a session interleave, the
\* session never holds more submissions than its maxSubmissions.
C35_SubmissionsWithinMax ==
    \A id \in SessionIds :
      forms[id].created
        => Len(forms[id].submissions)
             <= (IF forms[id].schema.maxSubmissions = 0 THEN 1
                 ELSE forms[id].schema.maxSubmissions)

\* C37 (as claimed): when SecretStore.set returned false for a submitted
\* secret, the submission is not answered as successful and the session does
\* not become completed.
C37_SuccessOnlyIfStored ==
    [][(event'.op = "store" /\ event'.stored = "no")
         => /\ event'.code # 200
            /\ forms'[event'.sid].status # "completed"]_vars

\* C38 (as claimed): once no creation, teardown or submission is in progress,
\* every port of the server map is the port of a registered session.
C38_NoServerOutlivesSession ==
    (creating = EmptyBag /\ closing = EmptyBag /\ submitting = EmptyBag)
      => \A port \in servers :
           \E id \in SessionIds : Registered(Form, id) /\ forms[id].port = port

\* C40 (as claimed): a submission is appended to session.submissions only
\* after its secrets were persisted: while the handler awaits the store the
\* session does not hold the submission yet.
C40_AppendedAfterPersisted ==
    [][(event'.op = "submit"
        /\ BagCardinality(submitting') > BagCardinality(submitting))
         => forms'[event'.sid].submissions = forms[event'.sid].submissions]_vars

(***************************************************************************)
(* Further properties of the secret store.                                 *)
(***************************************************************************)
\* C36 (as claimed): a record written with encrypted = true at world or user
\* scope holds the value as an encrypted payload only: no field of the stored
\* record, the metadata beside the payload included, is the plaintext.
C36_EncryptedRecordHoldsNoPlaintext ==
    /\ \A w \in WorldIds, k \in Keys :
         (worlds[w][k].present /\ worlds[w][k].encrypted)
           => worlds[w][k].value.kind = "object"
    /\ \A u \in Users, k \in Keys :
         (components[u][k].present /\ components[u][k].metadata.encrypted)
           => /\ components[u][k].value.kind = "object"
              /\ components[u][k].metadata.value.kind # "string"

====
